---------------------------- MODULE Spec2Model ----------------------------
(***************************************************************************)
(* Model of the chat-completion stream decoder (streamChatCompletion,      *)
(* chatCompletion), the content extractor, the proxy-chain fetchers, the   *)
(* search aggregators, the query-intent router and the news tools of       *)
(* src/src/api.js and of the MCP server (src/unnamed/part_000), the chat   *)
(* store of src/src/store.js and the chat view's handleSubmit and          *)
(* handleRemake.                                                           *)
(*                                                                         *)
(* Text is a sequence of one-character strings.  Indexes named as in the   *)
(* source (processedUpTo, searchStart, newlineIndex) keep JavaScript's     *)
(* 0-based values; buffer.substring(a, b) is SubSeq(buffer, a + 1, b).     *)
(***************************************************************************)
EXTENDS Integers, Sequences, FiniteSets, TLC

VARIABLES
    fn,                 \* which exported function runs: streamChatCompletion or chatCompletion
    model,              \* options.model, the identifier text
    forceNonStreaming,  \* options.forceNonStreaming
    pc,                 \* position of the call
    reqStream,          \* the "stream" field of the request body sent to the endpoint
    response,           \* the endpoint's answer: status and decoded JSON body, or NoResponse
    thrown,             \* message of the Error thrown to the caller, or NoError
    returned,           \* value chatCompletion returned, or Undefined before it returns
    body,               \* text the endpoint will send on the response body
    pos,                \* number of characters of body the reader has delivered
    buffer,             \* let buffer
    yielded,            \* fragments yielded to the consumer so far, in order
    midLineCut,         \* some chunk so far ended inside a line (not after a newline)
    firstTried,         \* processLine's first call in the latest chunk pass: <<from, to>> or <<>>
    flushLog,           \* one entry per JSON.parse call of the end-of-stream pass
    event,              \* extractor: the decoded JSON event handed to extractContent
    extracted,          \* extractor: what extractContent returned
    fetcher,            \* fetcher: which fetcher runs
    outcomes,           \* fetcher: what each transport does when contacted
    next,               \* fetcher: index of the next transport to contact
    attempts,           \* fetcher: transports contacted so far, in order
    result,             \* fetcher: the value returned to the caller, or Pending
    aggregator,         \* search: which aggregator runs: performWebSearch or MCP web_search
    query,              \* search: the query text
    maxResults,         \* search: the max_results argument of web_search, or NotGiven
    cursor,             \* search: position in the aggregator's list of sources
    inflight,           \* search: the answer the source being awaited will give, or NoRequest
    allResults,         \* search: const allResults = [] (results in web_search)
    fate,               \* search: how each source met so far ended
    searchResult,       \* search: the value returned to the caller
    router,             \* router: which function runs: smartWebSearch or streamWebSearchCompletion
    routerQuery,        \* router: the query argument
    urls,               \* router: the urls argument of streamWebSearchCompletion
    routerPc,           \* router: position of the call
    intent,             \* router: const intent
    resultsData,        \* router: what the direct-answer provider returned (results.data)
    webContext,         \* router: let webContext, the sections appended so far
    searched,           \* router: performWebSearch was invoked by this call
    newsFn,             \* news: which provider runs: getNewsHeadlines or MCP get_news
    newsMax,            \* news: the maxResults (max_results) argument, or not given
    newsPc,             \* news: position of the call
    headlines,          \* news: const results = []
    newsReturn,         \* news: the value returned to the caller
    chats,              \* store: chats, newest first
    currentChatId,      \* store: currentChatId, 0 for null
    nextId,             \* store: the number of ids generateId has produced
    handler,            \* chat view: which handler runs: handleSubmit or handleRemake
    uiPc,               \* chat view: position of the handler
    isLoading,          \* chat view: useState isLoading
    isWaitingForResponse, \* chat view: useState isWaitingForResponse
    streamingMessageId, \* chat view: useState streamingMessageId, 0 for null
    remakingMessageId,  \* chat view: useState remakingMessageId, 0 for null
    closure             \* chat view: what the handler captured at its render, and its locals

streamVars == <<fn, model, forceNonStreaming, pc, reqStream, response, thrown, returned,
                body, pos, buffer, yielded, midLineCut, firstTried, flushLog>>
extractVars == <<event, extracted>>
fetchVars == <<fetcher, outcomes, next, attempts, result>>
searchVars == <<aggregator, query, maxResults, cursor, inflight, allResults, fate,
                searchResult>>
routerVars == <<router, routerQuery, urls, routerPc, intent, resultsData, webContext, searched>>
newsVars == <<newsFn, newsMax, newsPc, headlines, newsReturn>>
storeVars == <<chats, currentChatId, nextId>>
uiVars == <<handler, uiPc, isLoading, isWaitingForResponse, streamingMessageId,
            remakingMessageId, closure>>
appVars == <<routerVars, newsVars, uiVars, storeVars>>
vars == <<streamVars, extractVars, fetchVars, searchVars, appVars>>

---------------------------------------------------------------------------
(* Bounds *)

\* lines the endpoint writes on a streamed body
MaxLines == 2

---------------------------------------------------------------------------
(* Text helpers: String.prototype methods used by the decoder *)

NL == "\n"
Whitespace == {" ", NL, "\r", "\t"}

\* s.indexOf(ch, from): 0-based index of the first ch at or after from, or -1
IndexOf(s, ch, from) ==
    IF \A i \in (from + 1)..Len(s) : s[i] # ch THEN -1
    ELSE (CHOOSE i \in (from + 1)..Len(s) :
              s[i] = ch /\ \A j \in (from + 1)..(i - 1) : s[j] # ch) - 1

\* s.trim()
Trim(s) ==
    IF \A i \in 1..Len(s) : s[i] \in Whitespace THEN <<>>
    ELSE LET first == CHOOSE i \in 1..Len(s) :
                          s[i] \notin Whitespace /\ \A j \in 1..(i - 1) : s[j] \in Whitespace
             back == CHOOSE k \in 0..(Len(s) - 1) :
                          s[Len(s) - k] \notin Whitespace
                          /\ \A j \in 0..(k - 1) : s[Len(s) - j] \in Whitespace
         IN SubSeq(s, first, Len(s) - back)

\* s.startsWith(p)
StartsWith(s, p) == Len(s) >= Len(p) /\ SubSeq(s, 1, Len(p)) = p

\* s.slice(n)
Slice(s, n) == SubSeq(s, n + 1, Len(s))

\* s.split('\n')
RECURSIVE Split(_)
Split(s) ==
    LET nl == IndexOf(s, NL, 0)
    IN IF nl = -1 THEN <<s>>
       ELSE <<SubSeq(s, 1, nl)>> \o Split(SubSeq(s, nl + 2, Len(s)))

\* concatenation of a sequence of fragments
RECURSIVE Concat(_)
Concat(frags) == IF frags = <<>> THEN <<>> ELSE Head(frags) \o Concat(Tail(frags))

DataPrefix == <<"d", "a", "t", "a", ":", " ">>
DoneMarker == <<"d", "a", "t", "a", ":", " ", "[", "D", "O", "N", "E", "]">>

---------------------------------------------------------------------------
(* JSON values *)

\* a leaf reached by an optional-chaining path: undefined, or a string
Undefined == [present |-> FALSE, val |-> <<>>]
Str(s) == [present |-> TRUE, val |-> s]
\* JavaScript truthiness of such a leaf: a non-empty string
Truthy(v) == v.present /\ v.val # <<>>
\* null returned by extractContent / carried in processLine's result
Null == Undefined

\* A decoded event: the value found at each path extractContent reads.
\* isNull is the JSON value null itself.
NoShape == [isNull |-> FALSE,
            delta_content |-> Undefined, delta_text |-> Undefined,
            message_content |-> Undefined, choice_text |-> Undefined,
            candidate_text |-> Undefined, content |-> Undefined, text |-> Undefined]
JsonNull == [NoShape EXCEPT !.isNull = TRUE]

Q == "\""
\* the JSON texts the endpoint's lines are built from, as token sequences
TokText(v) == << <<"{">>, <<Q, "t", "e", "x", "t", Q>>, <<":">>, <<Q>> \o v \o <<Q>>, <<"}">> >>
TokContent(v) == << <<"{">>, <<Q, "c", "o", "n", "t", "e", "n", "t", Q>>, <<":">>,
                    <<Q>> \o v \o <<Q>>, <<"}">> >>
TokNull == << <<"n", "u", "l", "l">> >>

JsonTexts ==
    { [toks |-> TokText(<<"a">>), json |-> [NoShape EXCEPT !.text = Str(<<"a">>)]],
      [toks |-> TokText(<<"c">>), json |-> [NoShape EXCEPT !.text = Str(<<"c">>)]],
      [toks |-> TokText(<<>>), json |-> [NoShape EXCEPT !.text = Str(<<>>)]],
      [toks |-> TokContent(<<"b">>), json |-> [NoShape EXCEPT !.content = Str(<<"b">>)]],
      [toks |-> TokNull, json |-> JsonNull] }

\* s is toks with insignificant whitespace before, between and after the tokens
RECURSIVE MatchTokens(_, _)
MatchTokens(s, toks) ==
    IF s # <<>> /\ Head(s) \in Whitespace THEN MatchTokens(Tail(s), toks)
    ELSE IF toks = <<>> THEN s = <<>>
    ELSE StartsWith(s, Head(toks))
         /\ MatchTokens(Slice(s, Len(Head(toks))), Tail(toks))

\* JSON.parse(s): the value, or a SyntaxError.  Every text that is not one of
\* JsonTexts (a truncated one, two lines joined, "[DONE]") is a syntax error.
JSONParse(s) ==
    LET hit == {e \in JsonTexts : MatchTokens(s, e.toks)}
    IN IF hit = {} THEN [ok |-> FALSE, json |-> NoShape]
       ELSE [ok |-> TRUE, json |-> (CHOOSE e \in hit : TRUE).json]

---------------------------------------------------------------------------
(* ContentExtractor *)

\* extractContent(json): the first truthy shape in the source's order, or
\* null.  Reading json.choices of the value null raises a TypeError.
extractContentSwapped(json) ==
    LET content ==
          IF Truthy(json.delta_text) THEN json.delta_text.val
          ELSE IF Truthy(json.delta_content) THEN json.delta_content.val
          ELSE IF Truthy(json.message_content) THEN json.message_content.val
          ELSE IF Truthy(json.choice_text) THEN json.choice_text.val
          ELSE IF Truthy(json.candidate_text) THEN json.candidate_text.val
          ELSE IF Truthy(json.content) THEN json.content.val
          ELSE IF Truthy(json.text) THEN json.text.val
          ELSE <<>>
    IN IF json.isNull THEN [threw |-> TRUE, content |-> Null]
       ELSE [threw |-> FALSE, content |-> IF content # <<>> THEN Str(content) ELSE Null]

extractContent(json) ==
    LET content ==
          IF Truthy(json.delta_content) THEN json.delta_content.val
          ELSE IF Truthy(json.delta_text) THEN json.delta_text.val
          ELSE IF Truthy(json.message_content) THEN json.message_content.val
          ELSE IF Truthy(json.choice_text) THEN json.choice_text.val
          ELSE IF Truthy(json.candidate_text) THEN json.candidate_text.val
          ELSE IF Truthy(json.content) THEN json.content.val
          ELSE IF Truthy(json.text) THEN json.text.val
          ELSE <<>>
    IN IF json.isNull THEN [threw |-> TRUE, content |-> Null]
       ELSE [threw |-> FALSE, content |-> IF content # <<>> THEN Str(content) ELSE Null]

---------------------------------------------------------------------------
(* ChunkFramer *)

\* processLine(line): { content, incomplete }.  The catch block covers
\* JSON.parse and extractContent alike.
processLine(line) ==
    LET trimmed == Trim(line)
        parsed == JSONParse(Slice(trimmed, 6))
        got == extractContent(parsed.json)
    IN IF trimmed = <<>> \/ trimmed = DoneMarker
         THEN [content |-> Null, incomplete |-> FALSE]
       ELSE IF ~StartsWith(trimmed, DataPrefix)
         THEN [content |-> Null, incomplete |-> FALSE]
       ELSE IF ~parsed.ok \/ got.threw
         THEN [content |-> Null, incomplete |-> TRUE]
       ELSE [content |-> got.content, incomplete |-> FALSE]

\* if (result.content) { ...; yield result.content; }
YieldFragmentAlways(out, content) == Append(out, content.val)

YieldFragment(out, content) ==
    IF Truthy(content) THEN Append(out, content.val) ELSE out

\* the inner while (true) of one chunk pass, from (processedUpTo, searchStart);
\* first is the first processLine call of the pass, <<from, to>>
RECURSIVE ScanBufferSkipping(_, _, _, _, _)
ScanBufferSkipping(buf, processedUpTo, searchStart, out, first) ==
    LET newlineIndex == IndexOf(buf, NL, searchStart)
        line == SubSeq(buf, processedUpTo + 1, newlineIndex)
        res == processLine(line)
        tried == IF first = <<>> THEN <<processedUpTo, newlineIndex>> ELSE first
    IN IF newlineIndex = -1
         THEN [processedUpTo |-> processedUpTo, out |-> out, first |-> first]
       ELSE IF Trim(line) = <<>>
         THEN ScanBufferSkipping(buf, newlineIndex + 1, newlineIndex + 1, out, first)
       ELSE ScanBufferSkipping(buf, newlineIndex + 1, newlineIndex + 1,
                               YieldFragment(out, res.content), tried)

RECURSIVE ScanBuffer(_, _, _, _, _)
ScanBuffer(buf, processedUpTo, searchStart, out, first) ==
    LET newlineIndex == IndexOf(buf, NL, searchStart)
        line == SubSeq(buf, processedUpTo + 1, newlineIndex)
        res == processLine(line)
        tried == IF first = <<>> THEN <<processedUpTo, newlineIndex>> ELSE first
    IN IF newlineIndex = -1
         THEN [processedUpTo |-> processedUpTo, out |-> out, first |-> first]
       ELSE IF Trim(line) = <<>>
         THEN ScanBuffer(buf, newlineIndex + 1, newlineIndex + 1, out, first)
       ELSE IF res.incomplete
         THEN IF newlineIndex + 1 >= Len(buf)
                THEN [processedUpTo |-> processedUpTo, out |-> out, first |-> tried]
              ELSE ScanBuffer(buf, processedUpTo, newlineIndex + 1, out, tried)
       ELSE ScanBuffer(buf, newlineIndex + 1, newlineIndex + 1,
                       YieldFragment(out, res.content), tried)

\* if (processedUpTo > 0) buffer = buffer.substring(processedUpTo)
KeepNothing(buf, processedUpTo) == <<>>
KeepAll(buf, processedUpTo) == buf

KeepUnprocessed(buf, processedUpTo) ==
    IF processedUpTo > 0 THEN Slice(buf, processedUpTo) ELSE buf

\* one iteration of the outer loop with done = false: the state after the
\* chunk has been appended and scanned
ProcessChunk(buf, out, chunk) ==
    LET appended == buf \o chunk
        scan == ScanBuffer(appended, 0, 0, out, <<>>)
    IN [buffer |-> KeepUnprocessed(appended, scan.processedUpTo),
        out |-> scan.out, first |-> scan.first]

\* catch (e) { /* Skip malformed JSON at the end */ }
CatchesNothing(threw) == FALSE

CatchesAll(threw) == TRUE

\* the body of the final for-loop for one line: what it yields, whether
\* JSON.parse was called, and whether an exception leaves the loop
FlushLine(line) ==
    LET trimmed == Trim(line)
        parsed == JSONParse(Slice(trimmed, 6))
        got == extractContent(parsed.json)
    IN IF trimmed = <<>> \/ trimmed = DoneMarker
         THEN [parse |-> "none", content |-> Null, escaped |-> FALSE]
       ELSE IF ~StartsWith(trimmed, DataPrefix)
         THEN [parse |-> "none", content |-> Null, escaped |-> FALSE]
       ELSE IF ~parsed.ok
         THEN [parse |-> "error", content |-> Null, escaped |-> ~CatchesAll(FALSE)]
       ELSE IF got.threw
         THEN [parse |-> "ok", content |-> Null, escaped |-> ~CatchesAll(TRUE)]
       ELSE [parse |-> "ok", content |-> got.content, escaped |-> FALSE]

\* the end-of-stream pass over buffer.split('\n'); stops at an escaping exception
RECURSIVE FlushLines(_, _, _, _)
FlushLines(lines, i, out, log) ==
    LET r == FlushLine(lines[i])
        entry == [line |-> i, parse |-> r.parse]
        log2 == IF r.parse = "none" THEN log ELSE Append(log, entry)
    IN IF i > Len(lines) THEN [out |-> out, log |-> log, escaped |-> FALSE]
       ELSE IF r.escaped THEN [out |-> out, log |-> log2, escaped |-> TRUE]
       ELSE FlushLines(lines, i + 1,
                       IF Truthy(r.content) THEN Append(out, r.content.val) ELSE out,
                       log2)

FlushBuffer(buf, out) ==
    IF Trim(buf) # <<>> THEN FlushLines(Split(buf), 1, out, <<>>)
    ELSE [out |-> out, log |-> <<>>, escaped |-> FALSE]

---------------------------------------------------------------------------
(* StreamingPolicy *)

UpperCase == <<"A", "B", "C", "D", "E", "F", "G", "H", "I", "J", "K", "L", "M",
               "N", "O", "P", "Q", "R", "S", "T", "U", "V", "W", "X", "Y", "Z">>
LowerCase == <<"a", "b", "c", "d", "e", "f", "g", "h", "i", "j", "k", "l", "m",
               "n", "o", "p", "q", "r", "s", "t", "u", "v", "w", "x", "y", "z">>

\* s.toLowerCase()
ToLowerCase(s) ==
    [i \in 1..Len(s) |->
        IF \E k \in 1..Len(UpperCase) : UpperCase[k] = s[i]
        THEN LowerCase[CHOOSE k \in 1..Len(UpperCase) : UpperCase[k] = s[i]]
        ELSE s[i]]

\* s.includes(sub)
Includes(s, sub) ==
    \E i \in 0..(Len(s) - Len(sub)) : SubSeq(s, i + 1, i + Len(sub)) = sub

Thinking == <<"t", "h", "i", "n", "k", "i", "n", "g">>
Gemini3 == <<"g", "e", "m", "i", "n", "i", "-", "3">>

\* model identifiers a caller passes: the default, two of TEXT_MODELS that
\* are in the defect families, and a custom spelling in mixed case
DefaultModel == <<"g", "e", "m", "i", "n", "i", "-", "2", ".", "5", "-", "f", "l", "a", "s", "h">>
ModelIds ==
    { DefaultModel,
      <<"c", "l", "a", "u", "d", "e", "-", "o", "p", "u", "s", "-", "4", ".", "5", "-", "t", "h", "i", "n", "k", "i", "n", "g">>,
      <<"g", "e", "m", "i", "n", "i", "-", "3", "-", "p", "r", "o", "-", "p", "r", "e", "v", "i", "e", "w">>,
      <<"C", "l", "a", "u", "d", "e", "-", "S", "o", "n", "n", "e", "t", "-", "4", ".", "5", "-", "T", "h", "i", "n", "k", "i", "n", "g">> }

\* const useStreaming = !forceNonStreaming && !needsNonStreaming
UseStreamingCallerOnly(modelId, force) == ~force

UseStreaming(modelId, force) ==
    LET modelLower == ToLowerCase(modelId)
        isThinkingModel == Includes(modelLower, Thinking)
        isGemini3Model == Includes(modelLower, Gemini3)
        needsNonStreaming == isThinkingModel \/ isGemini3Model
    IN ~force /\ ~needsNonStreaming

---------------------------------------------------------------------------
(* Responses of the chat-completion endpoint *)

NoResponse == [status |-> 0, readable |-> FALSE, message |-> Undefined,
               message_content |-> Undefined]
NoError == <<>>
UnknownError == <<"Unknown error">>
ApiError(status) == <<"API Error: ", ToString(status)>>
JsonSyntaxError == <<"SyntaxError">>

\* non-success statuses the endpoint answers with
ErrorStatuses == {401, 500}

\* the body of a non-success answer: unreadable as JSON, or a JSON object
\* whose error.message is undefined, empty or a text
ErrorBodies ==
    { [NoResponse EXCEPT !.readable = r, !.message = m] :
        r \in {TRUE}, m \in {Undefined, Str(<<>>), Str(<<"quota exceeded">>)} }
    \cup {NoResponse}

\* const error = await response.json().catch(() => ({ error: { message: 'Unknown error' } }));
\* throw new Error(error.error?.message || `API Error: ${response.status}`);
ErrorMessageStatusOnly(errBody, status) == ApiError(status)

ErrorMessage(errBody, status) ==
    LET error == IF errBody.readable THEN errBody.message ELSE Str(UnknownError)
    IN IF Truthy(error) THEN error.val ELSE ApiError(status)

\* the body of a success answer to a non-streaming request: unreadable as
\* JSON, or a JSON object with choices[0].message.content undefined, empty
\* or a text
CompletionBodies ==
    { [NoResponse EXCEPT !.readable = r, !.message_content = c] :
        r \in {TRUE}, c \in {Undefined, Str(<<>>), Str(<<"h", "i">>)} }
    \cup {NoResponse}

\* const content = data.choices?.[0]?.message?.content || '';
\* if (content) { yield content; }
NonStreamingYieldAlways(data) ==
    <<IF Truthy(data.message_content) THEN data.message_content.val ELSE <<>>>>

NonStreamingYield(data) ==
    LET content == IF Truthy(data.message_content) THEN data.message_content.val ELSE <<>>
    IN IF content # <<>> THEN <<content>> ELSE <<>>

\* return data.choices?.[0]?.message?.content || '';
ChatCompletionReturn(data) ==
    IF Truthy(data.message_content) THEN data.message_content.val ELSE <<>>

\* lines (without their newline) the endpoint writes on a streamed body
LineCatalogue ==
    { DataPrefix \o Concat(TokText(<<"a">>)),
      DataPrefix \o Concat(TokContent(<<"b">>)),
      DataPrefix \o Concat(TokText(<<>>)),
      <<>>,
      DoneMarker,
      DataPrefix \o Concat(TokNull),
      DataPrefix \o SubSeq(Concat(TokText(<<"c">>)), 1, 8),
      Slice(Concat(TokText(<<"c">>)), 8) }

RECURSIVE JoinLines(_)
JoinLines(lines) ==
    IF lines = <<>> THEN <<>> ELSE Head(lines) \o <<NL>> \o JoinLines(Tail(lines))

StreamBodies ==
    { JoinLines(ls) : ls \in UNION {[1..n -> LineCatalogue] : n \in 1..MaxLines} }

---------------------------------------------------------------------------
(* streamChatCompletion and chatCompletion as a state machine *)

NotExtracted == [called |-> FALSE, threw |-> FALSE, content |-> Null]
ExtractIdle == event = NoShape /\ extracted = NotExtracted
StreamIdle ==
    /\ fn = "none" /\ model = <<>> /\ forceNonStreaming = FALSE /\ pc = "idle"
    /\ reqStream = FALSE /\ response = NoResponse /\ thrown = NoError
    /\ returned = Undefined /\ body = <<>> /\ pos = 0 /\ buffer = <<>>
    /\ yielded = <<>> /\ midLineCut = FALSE /\ firstTried = <<>> /\ flushLog = <<>>
FetchIdle ==
    /\ fetcher = "none" /\ outcomes = <<>> /\ next = 0
    /\ attempts = <<>> /\ result = [state |-> "idle", success |-> FALSE, content |-> <<>>]
SearchIdle ==
    /\ aggregator = "none" /\ query = <<>> /\ maxResults = [given |-> FALSE, value |-> 0]
    /\ cursor = 0 /\ inflight = [kind |-> "none"] /\ allResults = <<>> /\ fate = <<>>
    /\ searchResult = [state |-> "idle"]

RouterIdle ==
    /\ router = "none" /\ routerQuery = <<>> /\ urls = <<>> /\ routerPc = "idle"
    /\ intent = "none" /\ webContext = <<>> /\ searched = FALSE
    /\ resultsData = [provider |-> "none", hasSuccess |-> FALSE, success |-> FALSE]
NewsIdle ==
    /\ newsFn = "none" /\ newsMax = [given |-> FALSE, value |-> 0] /\ newsPc = "idle"
    /\ headlines = <<>> /\ newsReturn = [state |-> "idle"]
StoreIdle == chats = <<>> /\ currentChatId = 0 /\ nextId = 0
\* no handler has run
NoClosure ==
    [streamingMessageId |-> 0, chatId |-> 0, assistantMsgId |-> 0, messageId |-> 0,
     fullContent |-> <<>>, threw |-> FALSE]
UiIdle ==
    /\ handler = "none" /\ uiPc = "idle" /\ isLoading = FALSE
    /\ isWaitingForResponse = FALSE /\ streamingMessageId = 0 /\ remakingMessageId = 0
    /\ closure = NoClosure
AppIdle == RouterIdle /\ NewsIdle /\ UiIdle /\ StoreIdle

Init ==
    /\ fn \in {"streamChatCompletion", "chatCompletion"}
    /\ model \in ModelIds
    /\ forceNonStreaming \in IF fn = "streamChatCompletion" THEN BOOLEAN ELSE {FALSE}
    /\ pc = "start"
    /\ reqStream = FALSE
    /\ response = NoResponse
    /\ thrown = NoError
    /\ returned = Undefined
    /\ body = <<>> /\ pos = 0 /\ buffer = <<>>
    /\ yielded = <<>> /\ midLineCut = FALSE /\ firstTried = <<>> /\ flushLog = <<>>
    /\ ExtractIdle /\ FetchIdle /\ SearchIdle /\ AppIdle

\* await fetch(`${API_BASE_URL}/chat/completions`, { ..., stream: useStreaming })
SendRequest ==
    /\ pc = "start"
    /\ reqStream' = IF fn = "streamChatCompletion"
                    THEN UseStreaming(model, forceNonStreaming) ELSE FALSE
    /\ pc' = "await"
    /\ UNCHANGED <<fn, model, forceNonStreaming, response, thrown, returned, body, pos,
                   buffer, yielded, midLineCut, firstTried, flushLog, extractVars, fetchVars,
                   searchVars, appVars>>

\* if (!response.ok) { ... throw ... }
ResponseNotOk ==
    /\ pc = "await"
    /\ \E status \in ErrorStatuses, errBody \in ErrorBodies :
          /\ response' = [errBody EXCEPT !.status = status]
          /\ thrown' = ErrorMessage(errBody, status)
    /\ pc' = "thrown"
    /\ UNCHANGED <<fn, model, forceNonStreaming, reqStream, returned, body, pos,
                   buffer, yielded, midLineCut, firstTried, flushLog, extractVars, fetchVars,
                   searchVars, appVars>>

\* if (!useStreaming) { const data = await response.json(); ...; return; }
NonStreamingResponse ==
    /\ pc = "await" /\ fn = "streamChatCompletion"
    /\ ~UseStreaming(model, forceNonStreaming)
    /\ \E data \in CompletionBodies :
          /\ response' = [data EXCEPT !.status = 200]
          /\ IF data.readable
             THEN /\ yielded' = NonStreamingYield(data)
                  /\ pc' = "done"
                  /\ thrown' = thrown
             ELSE /\ yielded' = yielded
                  /\ pc' = "thrown"
                  /\ thrown' = JsonSyntaxError
    /\ UNCHANGED <<fn, model, forceNonStreaming, reqStream, returned, body, pos,
                   buffer, midLineCut, firstTried, flushLog, extractVars, fetchVars,
                   searchVars, appVars>>

\* chatCompletion: const data = await response.json(); return ... || '';
ChatCompletionResponse ==
    /\ pc = "await" /\ fn = "chatCompletion"
    /\ \E data \in CompletionBodies :
          /\ response' = [data EXCEPT !.status = 200]
          /\ IF data.readable
             THEN /\ returned' = Str(ChatCompletionReturn(data))
                  /\ pc' = "done"
                  /\ thrown' = thrown
             ELSE /\ returned' = returned
                  /\ pc' = "thrown"
                  /\ thrown' = JsonSyntaxError
    /\ UNCHANGED <<fn, model, forceNonStreaming, reqStream, body, pos, buffer,
                   yielded, midLineCut, firstTried, flushLog, extractVars, fetchVars,
                   searchVars, appVars>>

\* const reader = response.body.getReader(); let buffer = '';
StreamResponse ==
    /\ pc = "await" /\ fn = "streamChatCompletion"
    /\ UseStreaming(model, forceNonStreaming)
    /\ body' \in StreamBodies
    /\ response' = [NoResponse EXCEPT !.status = 200]
    /\ pc' = "read"
    /\ UNCHANGED <<fn, model, forceNonStreaming, reqStream, thrown, returned, pos,
                   buffer, yielded, midLineCut, firstTried, flushLog, extractVars, fetchVars,
                   searchVars, appVars>>

\* reader.read() delivers the next chunk: the transport cuts the body at any offset
ReadChunk ==
    /\ pc = "read"
    /\ \E n \in 1..(Len(body) - pos) :
          LET r == ProcessChunk(buffer, yielded, SubSeq(body, pos + 1, pos + n))
          IN /\ pos' = pos + n
             /\ buffer' = r.buffer
             /\ yielded' = r.out
             /\ firstTried' = r.first
             /\ midLineCut' = (midLineCut \/ body[pos + n] # NL)
    /\ UNCHANGED <<fn, model, forceNonStreaming, pc, reqStream, response, thrown,
                   returned, body, flushLog, extractVars, fetchVars,
                   searchVars, appVars>>

\* reader.read() reports done: the body is complete, or the connection ended early
ReadDone ==
    /\ pc = "read"
    /\ pc' = "flush"
    /\ UNCHANGED <<fn, model, forceNonStreaming, reqStream, response, thrown, returned,
                   body, pos, buffer, yielded, midLineCut, firstTried, flushLog,
                   extractVars, fetchVars,
                   searchVars, appVars>>

\* if (buffer.trim()) { for (const line of buffer.split('\n')) ... }
Flush ==
    /\ pc = "flush"
    /\ LET r == FlushBuffer(buffer, yielded)
       IN /\ yielded' = r.out
          /\ flushLog' = r.log
          /\ pc' = IF r.escaped THEN "thrown" ELSE "done"
          /\ thrown' = IF r.escaped THEN <<"TypeError">> ELSE thrown
    /\ UNCHANGED <<fn, model, forceNonStreaming, reqStream, response, returned, body,
                   pos, buffer, midLineCut, firstTried, extractVars, fetchVars,
                   searchVars, appVars>>

Next ==
    \/ SendRequest
    \/ ResponseNotOk
    \/ NonStreamingResponse
    \/ ChatCompletionResponse
    \/ StreamResponse
    \/ ReadChunk
    \/ ReadDone
    \/ Flush

Spec == Init /\ [][Next]_vars

---------------------------------------------------------------------------
(* Vocabulary of the decoder's properties *)

\* the text the reader has delivered: at "flush" and "done", the stream body
Delivered == SubSeq(body, 1, pos)

\* a line that is a data line: it carries the data prefix and is not the end marker
DataLine(line) ==
    /\ Trim(line) # <<>>
    /\ Trim(line) # DoneMarker
    /\ StartsWith(Trim(line), DataPrefix)

Payload(line) == Slice(Trim(line), 6)

\* a data line whose JSON does not parse
FailedLine(line) == DataLine(line) /\ ~JSONParse(Payload(line)).ok

\* a line that on its own is a complete protocol frame
FrameLine(line) ==
    \/ Trim(line) = <<>>
    \/ Trim(line) = DoneMarker
    \/ DataLine(line) /\ JSONParse(Payload(line)).ok

\* a complete valid stream body: frames only, each ended by its newline
ValidBody(t) ==
    /\ t # <<>> => t[Len(t)] = NL
    /\ \A i \in 1..Len(Split(t)) : FrameLine(Split(t)[i])

\* the content a line carries when it is, on its own, a data frame: its
\* string, or <<>> when it has none
OwnContent(line) ==
    IF DataLine(line) /\ JSONParse(Payload(line)).ok
       /\ ~extractContent(JSONParse(Payload(line)).json).threw
       /\ Truthy(extractContent(JSONParse(Payload(line)).json).content)
    THEN extractContent(JSONParse(Payload(line)).json).content.val
    ELSE <<>>

\* the contents of the lines that carry one, in the order of the lines
RECURSIVE OwnContents(_)
OwnContents(lines) ==
    IF lines = <<>> THEN <<>>
    ELSE (IF OwnContent(Head(lines)) # <<>> THEN <<OwnContent(Head(lines))>> ELSE <<>>)
         \o OwnContents(Tail(lines))

\* the whole text decoded as a single chunk followed by the end of the stream
OneChunkOutput(t) ==
    LET r == ProcessChunk(<<>>, <<>>, t)
    IN Concat(FlushBuffer(r.buffer, r.out).out)

\* the first line of the buffer is complete (its newline is in the buffer)
HeadIndex(buf) == IndexOf(buf, NL, 0)
HeadLine(buf) == SubSeq(buf, 1, HeadIndex(buf))
HeadFailed(buf) == HeadIndex(buf) # -1 /\ FailedLine(HeadLine(buf))

LineA == DataPrefix \o Concat(TokText(<<"a">>))
LineB == DataPrefix \o Concat(TokContent(<<"b">>))
LineEmpty == DataPrefix \o Concat(TokText(<<>>))
LineOpen == DataPrefix \o SubSeq(Concat(TokText(<<"c">>)), 1, 8)

---------------------------------------------------------------------------
(* Claims on the decoder *)

\* C1: chunking independence.  When the delivered stream body is a complete
\* valid body, the concatenation of the fragments yielded under whatever
\* chunking the run used equals the output of decoding that body as one chunk.
C1_ChunkingIndependence ==
    (pc = "done" /\ reqStream /\ ValidBody(Delivered))
        => Concat(yielded) = OneChunkOutput(Delivered)

\* a valid two-frame body was decoded with a chunk boundary inside a line
C1_Witness ==
    /\ pc = "done" /\ reqStream /\ midLineCut
    /\ Delivered = JoinLines(<<LineA, LineB>>)
    /\ Concat(yielded) = <<"a", "b">>

\* C2: no fragment yielded on any path (non-streaming answer, in-stream
\* lines, end-of-stream pass) is the empty string.
C2_NoEmptyFragment == \A i \in 1..Len(yielded) : yielded[i] # <<>>

\* an event with empty content was decoded and nothing was yielded for it
C2_Witness ==
    /\ pc = "done"
    /\ Delivered = JoinLines(<<LineEmpty, LineA>>)
    /\ yielded = << <<"a">> >>

\* C3: terminal-fragment tolerance.  When the stream ends with a line in the
\* buffer whose JSON does not parse, the end-of-stream pass calls JSON.parse
\* exactly once for each data line of the buffer, ends normally (nothing is
\* thrown), and yields the contents of the parsable lines only.
C3_TerminalTolerance ==
    [][(pc = "flush" /\ \E i \in 1..Len(Split(buffer)) : FailedLine(Split(buffer)[i]))
        => LET lines == Split(buffer)
           IN /\ pc' = "done" /\ thrown' = NoError
              /\ \A i \in 1..Len(lines) :
                    Cardinality({k \in 1..Len(flushLog') : flushLog'[k].line = i})
                        = IF DataLine(lines[i]) THEN 1 ELSE 0
              /\ \A k \in 1..Len(flushLog') :
                    FailedLine(lines[flushLog'[k].line]) <=> flushLog'[k].parse = "error"
              /\ yielded' = yielded \o OwnContents(lines)]_vars

\* the stream ended in the middle of a second frame: the first frame was
\* yielded, the remnant was tried once and dropped
C3_Witness ==
    /\ pc = "done" /\ thrown = NoError
    /\ Delivered = JoinLines(<<LineA>>) \o SubSeq(LineB, 1, 12)
    /\ flushLog = <<[line |-> 1, parse |-> "error"]>>
    /\ yielded = << <<"a">> >>

\* the fragment of the frame written on two lines; no single line carries it
TwoLineFragment == <<"c">>

\* C4: exactly-once ordered delivery.  When the generator completes, the
\* fragments yielded, leaving aside the fragment of a frame spread over two
\* lines, are exactly the contents of the lines that are valid data frames on
\* their own, in the order of the lines.
C4_ExactlyOnceInOrder ==
    (pc = "done" /\ reqStream)
        => SelectSeq(yielded, LAMBDA f : f # TwoLineFragment) = OwnContents(Split(Delivered))

\* a malformed line precedes a valid frame, which is still yielded, once
C4_Witness ==
    /\ pc = "done" /\ midLineCut
    /\ Delivered = JoinLines(<<LineOpen, LineA>>)
    /\ yielded = << <<"a">> >>

\* the step of ReadChunk, with the chunk it delivers
ChunkRead == pc = "read" /\ pc' = "read" /\ pos' > pos
Appended == buffer \o SubSeq(body, pos + 1, pos')
Cut == Len(Appended) - Len(buffer')

\* C5 as stated: while the stream is open the bytes of a data line whose JSON
\* failed to parse are never removed from the buffer; the buffer is trimmed
\* only up to the end of the last line consumed; the retained line is
\* attempted again at every later chunk.
C5_Original ==
    [][ChunkRead =>
          /\ HeadFailed(buffer) => StartsWith(buffer', HeadLine(buffer) \o <<NL>>)
          /\ buffer' = Slice(Appended, Cut)
          /\ Cut > 0 => Appended[Cut] = NL
          /\ HeadFailed(buffer) => firstTried' = <<0, HeadIndex(buffer)>>]_vars

\* C5 amended: the bytes of a data line whose JSON failed to parse leave the
\* buffer only when a longer candidate, from that line's first byte to a later
\* newline, is processed successfully; the buffer is trimmed only up to the
\* newline ending the last candidate consumed; a retained line is attempted
\* again at every later chunk.
C5_BufferRetention ==
    [][ChunkRead =>
          /\ HeadFailed(buffer) =>
                \/ StartsWith(buffer', HeadLine(buffer) \o <<NL>>)
                \/ \E k \in (HeadIndex(buffer) + 2)..Len(Appended) :
                      /\ Appended[k] = NL
                      /\ ~processLine(SubSeq(Appended, 1, k - 1)).incomplete
          /\ buffer' = Slice(Appended, Cut)
          /\ Cut > 0 =>
                /\ Appended[Cut] = NL
                /\ \E j \in 0..(Cut - 1) :
                      /\ j > 0 => Appended[j] = NL
                      /\ ~processLine(SubSeq(Appended, j + 1, Cut - 1)).incomplete
          /\ HeadIndex(buffer) # -1 => firstTried' = <<0, HeadIndex(buffer)>>]_vars

\* a line that failed to parse is still at the head of the buffer, with the
\* line after it, after a later chunk completed that line; it was attempted
\* again in that pass
C5_Witness ==
    /\ pc = "read" /\ midLineCut
    /\ buffer = JoinLines(<<LineOpen, LineA>>)
    /\ HeadFailed(buffer)
    /\ firstTried = <<0, HeadIndex(buffer)>>

---------------------------------------------------------------------------
(* Claims on the request: policy, non-streaming answer, upstream error *)

\* C6: the request of streamChatCompletion carries stream = true exactly when
\* forceNonStreaming is false and the lower-cased model id contains neither
\* "thinking" nor "gemini-3".
C6_StreamingPolicy ==
    (fn = "streamChatCompletion" /\ pc # "start")
        => (reqStream <=>
               /\ ~forceNonStreaming
               /\ ~Includes(ToLowerCase(model), Thinking)
               /\ ~Includes(ToLowerCase(model), Gemini3))

\* a model id spelt in mixed case is sent non-streaming though the caller did
\* not force it
C6_Witness ==
    /\ fn = "streamChatCompletion" /\ pc = "await"
    /\ model # ToLowerCase(model)
    /\ ~forceNonStreaming /\ ~reqStream

\* C7 as stated: in non-streaming mode exactly one fragment is yielded, equal
\* to choices[0].message.content, and the body is never read as a line stream.
C7_Original ==
    (fn = "streamChatCompletion" /\ pc = "done" /\ ~reqStream)
        => /\ yielded = <<response.message_content.val>>
           /\ pos = 0 /\ buffer = <<>> /\ flushLog = <<>>

\* C7 amended: in non-streaming mode, once the generator completes it has
\* yielded exactly one fragment equal to choices[0].message.content when that
\* content is a non-empty string and no fragment when it is empty or absent,
\* and the body was never read as a line stream.
C7_NonStreamingFragment ==
    (fn = "streamChatCompletion" /\ pc = "done" /\ ~reqStream)
        => /\ yielded = IF Truthy(response.message_content)
                        THEN <<response.message_content.val>> ELSE <<>>
           /\ pos = 0 /\ buffer = <<>> /\ flushLog = <<>>

\* scenario A: 'claude-opus-4.5-thinking', streaming requested
C7_Witness ==
    /\ fn = "streamChatCompletion" /\ pc = "done"
    /\ Includes(model, Thinking) /\ ~forceNonStreaming /\ ~reqStream
    /\ yielded = << <<"h", "i">> >>

\* C9: after a non-success status the call has thrown and has yielded and
\* returned nothing; the message is 'Unknown error' when the body is not
\* readable as JSON, the body's error.message when it has a non-empty one,
\* and 'API Error: <status>' otherwise.
C9_UpstreamError ==
    (response.status \in ErrorStatuses)
        => /\ pc = "thrown"
           /\ yielded = <<>> /\ returned = Undefined /\ pos = 0
           /\ thrown = IF ~response.readable THEN UnknownError
                       ELSE IF response.message.present /\ response.message.val # <<>>
                            THEN response.message.val
                       ELSE ApiError(response.status)

\* a 500 answer without a message, to chatCompletion
C9_Witness ==
    /\ fn = "chatCompletion" /\ pc = "thrown"
    /\ response.status = 500 /\ response.readable /\ ~response.message.present
    /\ thrown = <<"API Error: ", "500">>

---------------------------------------------------------------------------
(* extractContent on its own: every combination of shapes *)

\* the value a shape carries when present and non-empty, one per shape
ShapeValue(i) == <<ToString(i)>>
Leaves(i) == {Undefined, Str(<<>>), Str(ShapeValue(i))}

\* decoded events: each path undefined, the empty string or a text; and null
Events ==
    { [isNull |-> FALSE,
       delta_content |-> a, delta_text |-> b, message_content |-> c,
       choice_text |-> d, candidate_text |-> e, content |-> f, text |-> g] :
         a \in Leaves(1), b \in Leaves(2), c \in Leaves(3), d \in Leaves(4),
         e \in Leaves(5), f \in Leaves(6), g \in Leaves(7) }
    \cup {JsonNull}

InitExtract ==
    /\ event \in Events
    /\ extracted = NotExtracted
    /\ StreamIdle /\ FetchIdle /\ SearchIdle /\ AppIdle

Extract ==
    /\ ~extracted.called
    /\ extracted' = [called |-> TRUE,
                     threw |-> extractContent(event).threw,
                     content |-> extractContent(event).content]
    /\ UNCHANGED <<event, streamVars, fetchVars, searchVars, appVars>>

NextExtract == Extract

SpecExtract == InitExtract /\ [][NextExtract]_vars

\* the shapes of an event in the order choices[0].delta.content,
\* choices[0].delta.text, choices[0].message.content, choices[0].text,
\* candidates[0].content.parts[0].text, content, text
ShapesOf(json) ==
    <<json.delta_content, json.delta_text, json.message_content, json.choice_text,
      json.candidate_text, json.content, json.text>>

\* C8: extractContent returns the value of the first shape, in the fixed
\* order, that the event carries with a non-empty value, whatever the later
\* shapes hold, and null when no shape carries one.
C8_FirstShapeWins ==
    (extracted.called /\ ~event.isNull)
        => LET shapes == ShapesOf(event)
               hits == {i \in 1..Len(shapes) : Truthy(shapes[i])}
           IN /\ ~extracted.threw
              /\ hits = {} => extracted.content = Null
              /\ \A i \in hits :
                    (\A j \in hits : i <= j) => extracted.content = Str(shapes[i].val)

\* an event carrying every shape from choices[0].delta.text on, the first of
\* them after an empty choices[0].delta.content
C8_Witness ==
    /\ extracted.called
    /\ event.delta_content = Str(<<>>)
    /\ \A i \in 2..7 : Truthy(ShapesOf(event)[i])
    /\ extracted.content = Str(ShapeValue(2))

---------------------------------------------------------------------------
(* Fetcher / ProxyChain: fetchUrlContent, fetchWithProxies, MCP fetch_url *)

Fetchers == {"fetchUrlContent", "fetchWithProxies", "fetch_url"}

\* the length of the fetcher's corsProxies list
ProxyCount(f) ==
    CASE f = "fetchUrlContent" -> 3
      [] f = "fetchWithProxies" -> 4
      [] f = "fetch_url" -> 3

\* transports in the order the fetcher contacts them; 0 is the URL itself,
\* which only fetch_url tries, 1.. are the proxy builders in list order
FirstTransportSwapped(f) == IF f = "fetch_url" THEN 1 ELSE 0

FirstTransport(f) == IF f = "fetch_url" THEN 0 ELSE 1
Transports(f) == FirstTransport(f)..ProxyCount(f)

\* what a transport does when contacted: a 2xx answer with a readable body,
\* a non-2xx answer, a network error, an endpoint that accepts the request
\* and never responds, a 2xx answer whose body cannot be read (axios delivers
\* the body with the answer), a page on which the text extraction fails
\* (only fetchUrlContent extracts inside the loop)
Outcomes(f) ==
    CASE f = "fetch_url" -> {"ok", "status", "error", "hang"}
      [] f = "fetchWithProxies" -> {"ok", "status", "error", "hang", "bodyError"}
      [] f = "fetchUrlContent" ->
            {"ok", "status", "error", "hang", "bodyError", "parseError"}

\* an attempt made without a timeout
NoTimeout == 0

\* the timeout in milliseconds each attempt of the fetcher carries
TimeoutMs(f) ==
    CASE f = "fetchUrlContent" -> NoTimeout
      [] f = "fetchWithProxies" -> 10000
      [] f = "fetch_url" -> 15000

\* what the awaiting fetcher sees of the transport: a request that is never
\* answered is rejected when the attempt's timer fires
Settled(f, outcome) ==
    IF outcome = "hang" /\ TimeoutMs(f) # NoTimeout THEN "error" ELSE outcome

\* the page a transport serves
Html(i) == <<"page via", i>>

\* whether the attempt ends the chain with a value
AttemptSucceedsAnyStatus(f, outcome) == outcome \in {"ok", "status"}

AttemptSucceeds(f, outcome) ==
    CASE f = "fetchUrlContent" ->
            outcome \notin {"error", "status", "bodyError", "parseError"}
      [] f = "fetchWithProxies" -> outcome = "ok"
      [] f = "fetch_url" -> outcome # "error" /\ outcome # "status"

\* the statement of the attempt at which the outcome shows
StepOf(outcome) ==
    CASE outcome \in {"ok", "status", "error", "hang"} -> "request"
      [] outcome = "bodyError" -> "body"
      [] outcome = "parseError" -> "parse"

\* the statements of one attempt that stand inside its try block
TryCoversRequestOnly(f) == {"request"}

TryCovers(f) ==
    CASE f = "fetchUrlContent" -> {"request", "body", "parse"}
      [] f = "fetchWithProxies" -> {"request", "body"}
      [] f = "fetch_url" -> {"request"}

\* what the fetcher returns from a page
ReturnOf(f, html) ==
    CASE f = "fetchUrlContent" ->
            [state |-> "returned", success |-> TRUE, url |-> "url",
             content |-> <<"extractTextFromHtml", html>>,
             title |-> <<"extractTitle", html>>]
      [] f = "fetchWithProxies" ->
            [state |-> "returned", success |-> TRUE, content |-> html]
      [] f = "fetch_url" ->
            [state |-> "returned", success |-> TRUE, content |-> <<"## Content from", html>>]

\* what the fetcher returns after the last transport failed
FailureOf(f) ==
    CASE f = "fetchUrlContent" ->
            [state |-> "returned", success |-> FALSE, url |-> "url",
             error |-> <<"Failed to fetch URL content through available proxies">>]
      [] f = "fetchWithProxies" ->
            [state |-> "returned", success |-> FALSE, content |-> <<"null">>]
      [] f = "fetch_url" ->
            [state |-> "returned", success |-> FALSE,
             content |-> <<"Failed to fetch URL through all available methods">>]

Pending == [state |-> "pending", success |-> FALSE, content |-> <<>>]

InitFetch ==
    /\ fetcher \in Fetchers
    /\ outcomes \in [Transports(fetcher) -> Outcomes(fetcher)]
    /\ next = FirstTransport(fetcher)
    /\ attempts = <<>>
    /\ result = Pending
    /\ StreamIdle /\ ExtractIdle /\ SearchIdle /\ AppIdle

\* one iteration of the for-loop (for fetch_url: the direct get, then the loop)
Attempt ==
    /\ result = Pending
    /\ next <= ProxyCount(fetcher)
    /\ Settled(fetcher, outcomes[next]) # "hang"
    /\ attempts' = Append(attempts, next)
    /\ LET seen == Settled(fetcher, outcomes[next])
       IN IF AttemptSucceeds(fetcher, seen)
          THEN /\ result' = ReturnOf(fetcher, Html(next))
               /\ next' = next
          ELSE IF StepOf(seen) \in TryCovers(fetcher)
          THEN /\ result' = result
               /\ next' = next + 1
          ELSE /\ result' = [state |-> "thrown", success |-> FALSE, content |-> <<>>]
               /\ next' = next
    /\ UNCHANGED <<fetcher, outcomes, streamVars, extractVars,
                   searchVars, appVars>>

\* the request is sent to an endpoint that never responds and nothing ends
\* the await: the call stays suspended
AwaitForever ==
    /\ result = Pending
    /\ next <= ProxyCount(fetcher)
    /\ Settled(fetcher, outcomes[next]) = "hang"
    /\ attempts' = Append(attempts, next)
    /\ result' = [state |-> "awaiting", success |-> FALSE, content |-> <<>>]
    /\ UNCHANGED <<fetcher, outcomes, next, streamVars, extractVars,
                   searchVars, appVars>>

\* the loop ran out of proxies
Exhausted ==
    /\ result = Pending
    /\ next > ProxyCount(fetcher)
    /\ result' = FailureOf(fetcher)
    /\ UNCHANGED <<fetcher, outcomes, next, attempts, streamVars, extractVars,
                   searchVars, appVars>>

NextFetch == Attempt \/ AwaitForever \/ Exhausted

SpecFetch == InitFetch /\ [][NextFetch]_vars

\* the JavaScript event loop resumes a call whose awaited promise settled
SpecFetchFair == SpecFetch /\ WF_vars(NextFetch)

\* C10: in every fetcher the transports are contacted one after another in
\* list order, each at most once; every attempt before the last one failed;
\* a success is returned from the last transport contacted, answers 2xx, and
\* is exactly what the fetcher makes of that transport's page; a failure is
\* returned only after the whole list was tried.
C10_ProxyChainOrder ==
    LET n == Len(attempts)
    IN /\ \A k \in 1..n : attempts[k] = FirstTransport(fetcher) + k - 1
       /\ \A k \in 1..(n - 1) : outcomes[attempts[k]] # "ok"
       /\ (result.state = "returned" /\ result.success) =>
             /\ n >= 1
             /\ outcomes[attempts[n]] = "ok"
             /\ result = ReturnOf(fetcher, Html(attempts[n]))
       /\ (result.state = "returned" /\ ~result.success) =>
             /\ n = Cardinality(Transports(fetcher))
             /\ \A k \in 1..n : outcomes[attempts[k]] # "ok"

\* scenario E: proxies 1 and 2 answer non-2xx, proxy 3 succeeds
C10_Witness ==
    /\ fetcher = "fetchUrlContent"
    /\ outcomes[1] = "status" /\ outcomes[2] = "status" /\ outcomes[3] = "ok"
    /\ attempts = <<1, 2, 3>>
    /\ result = ReturnOf("fetchUrlContent", Html(3))


\* C11 as stated: whichever fetcher runs, a proxy is contacted only after
\* the URL itself was tried directly and that direct attempt failed.
C11_Original ==
    \A k \in 1..Len(attempts) :
        attempts[k] > 0 =>
            /\ attempts[1] = 0
            /\ ~AttemptSucceeds(fetcher, Settled(fetcher, outcomes[0]))

\* C11: MCP fetch_url first attempts the URL directly and contacts a proxy
\* only after that direct attempt failed; fetchUrlContent and
\* fetchWithProxies never attempt the URL directly, their first attempt goes
\* to the first proxy of the list.
C11_DirectFirst ==
    LET n == Len(attempts)
    IN /\ fetcher = "fetch_url" =>
             /\ n >= 1 => attempts[1] = 0
             /\ n >= 2 => ~AttemptSucceeds(fetcher, Settled(fetcher, outcomes[0]))
       /\ fetcher \in {"fetchUrlContent", "fetchWithProxies"} =>
             /\ \A k \in 1..n : attempts[k] # 0
             /\ n >= 1 => attempts[1] = 1

\* fetch_url: the direct attempt fails, the first proxy answers
C11_Witness ==
    /\ fetcher = "fetch_url"
    /\ outcomes[0] = "error" /\ outcomes[1] = "ok"
    /\ attempts = <<0, 1>>
    /\ result = ReturnOf("fetch_url", Html(1))

\* C12: every attempt is bounded by its own timeout, so every call of
\* fetchUrlContent, fetchWithProxies or fetch_url eventually returns, also
\* when an endpoint accepts the request and never responds.
C12_EventuallyReturns == <>(result.state = "returned")

\* C13: fetchUrlContent never throws: whatever the proxies do, it returns
\* {success: true, url, content, title} made from the page of the first
\* proxy that succeeds, or, when every proxy failed, the one
\* {success: false, url, error} object.
C13_NeverThrows ==
    fetcher = "fetchUrlContent" =>
        /\ result.state # "thrown"
        /\ result.state = "returned" =>
              \/ /\ result.success
                 /\ \E i \in Transports(fetcher) :
                       /\ outcomes[i] = "ok"
                       /\ \A j \in Transports(fetcher) : j < i => outcomes[j] # "ok"
                       /\ result = [state |-> "returned", success |-> TRUE,
                                    url |-> "url",
                                    content |-> <<"extractTextFromHtml", Html(i)>>,
                                    title |-> <<"extractTitle", Html(i)>>]
              \/ /\ ~result.success
                 /\ \A i \in Transports(fetcher) : outcomes[i] # "ok"
                 /\ result = [state |-> "returned", success |-> FALSE, url |-> "url",
                              error |-> <<"Failed to fetch URL content through available proxies">>]

\* a network error, an unreadable body and a failing extraction in turn
C13_Witness ==
    /\ fetcher = "fetchUrlContent"
    /\ outcomes = <<"error", "bodyError", "parseError">>
    /\ attempts = <<1, 2, 3>>
    /\ result.state = "returned" /\ ~result.success

---------------------------------------------------------------------------
(* SearchAggregator: performWebSearch and the MCP tool web_search *)

\* the two aggregators
Aggregators == {"performWebSearch", "web_search"}

\* the queries a caller passes: a plain one ("cat"), one holding a
\* programming and tech keyword in upper case ("API"), a Russian one
Queries ==
    {<<"c", "a", "t">>, <<"A", "P", "I">>, <<"U+043A", "U+043E", "U+0442">>}

\* the letters matched by /[\u0430-\u044F\u0451]/i, written by code point

RussianLetters ==
    {"U+0430", "U+0431", "U+0432", "U+0433", "U+0434", "U+0435", "U+0436",
     "U+0437", "U+0438", "U+0439", "U+043A", "U+043B", "U+043C", "U+043D",
     "U+043E", "U+043F", "U+0440", "U+0441", "U+0442", "U+0443", "U+0444",
     "U+0445", "U+0446", "U+0447", "U+0448", "U+0449", "U+044A", "U+044B",
     "U+044C", "U+044D", "U+044E", "U+044F", "U+0451", "U+0410", "U+0411",
     "U+0412", "U+0413", "U+0414", "U+0415", "U+0416", "U+0417", "U+0418",
     "U+0419", "U+041A", "U+041B", "U+041C", "U+041D", "U+041E", "U+041F",
     "U+0420", "U+0421", "U+0422", "U+0423", "U+0424", "U+0425", "U+0426",
     "U+0427", "U+0428", "U+0429", "U+042A", "U+042B", "U+042C", "U+042D",
     "U+042E", "U+042F", "U+0401"}

progKeywords ==
    <<<<"c", "o", "d", "e">>,
      <<"e", "r", "r", "o", "r">>,
      <<"f", "u", "n", "c", "t", "i", "o", "n">>,
      <<"h", "o", "w", " ", "t", "o">>,
      <<"t", "u", "t", "o", "r", "i", "a", "l">>,
      <<"e", "x", "a", "m", "p", "l", "e">>,
      <<"j", "a", "v", "a", "s", "c", "r", "i", "p", "t">>,
      <<"p", "y", "t", "h", "o", "n">>,
      <<"r", "e", "a", "c", "t">>,
      <<"t", "y", "p", "e", "s", "c", "r", "i", "p", "t">>,
      <<"c", "s", "s">>,
      <<"h", "t", "m", "l">>,
      <<"a", "p", "i">>,
      <<"U+043F", "U+0440", "U+043E", "U+0433", "U+0440", "U+0430", "U+043C", "U+043C", "U+0438", "U+0440", "U+043E", "U+0432", "U+0430", "U+043D", "U+0438", "U+0435">>,
      <<"U+043E", "U+0448", "U+0438", "U+0431", "U+043A", "U+0430">>,
      <<"U+043A", "U+043E", "U+0434">>>>

techKeywords ==
    <<<<"p", "r", "o", "g", "r", "a", "m", "m", "i", "n", "g">>,
      <<"s", "o", "f", "t", "w", "a", "r", "e">>,
      <<"c", "o", "d", "e">>,
      <<"d", "e", "v", "e", "l", "o", "p", "e", "r">>,
      <<"t", "e", "c", "h">>,
      <<"a", "p", "i">>,
      <<"j", "a", "v", "a", "s", "c", "r", "i", "p", "t">>,
      <<"p", "y", "t", "h", "o", "n">>,
      <<"r", "e", "a", "c", "t">>,
      <<"a", "i">>,
      <<"m", "a", "c", "h", "i", "n", "e", " ", "l", "e", "a", "r", "n", "i", "n", "g">>,
      <<"s", "t", "a", "r", "t", "u", "p">>>>

\* /[а-яё]/i.test(query)
hasRussian(q) == \E i \in 1..Len(q) : q[i] \in RussianLetters

\* keywords.some(kw => query.toLowerCase().includes(kw))
SomeKeyword(keywords, q) ==
    \E k \in 1..Len(keywords) : Includes(ToLowerCase(q), keywords[k])

\* array.slice(0, n); a text value is a sequence of tokens, '' the empty one
Take(items, n) == SubSeq(items, 1, IF n <= Len(items) THEN n ELSE Len(items))

\* value || fallback
Or(value, fallback) == IF value # <<>> THEN value ELSE fallback

\* the steps of the aggregator in the order it runs them; web_search scrapes
\* once per proxy of its list
SourceOrder(ag) ==
    IF ag = "performWebSearch"
    THEN <<"Web", "DuckDuckGo", "Wikipedia", "RuWikipedia", "HackerNews",
           "StackOverflow", "Reddit">>
    ELSE <<"DuckDuckGo", "Wikipedia", "WebProxy1", "WebProxy2", "WebProxy3",
           "HackerNews">>

\* the source a step belongs to
SourceOf(step) ==
    IF step \in {"WebProxy1", "WebProxy2", "WebProxy3"} THEN "Web" ELSE step

\* max_results as the caller gives it: not at all, or a number
MaxResultsArguments ==
    {[given |-> FALSE, value |-> 0]}
        \cup {[given |-> TRUE, value |-> n] : n \in {0, 2, 20, 21}}

\* z.number().min(1).max(20).optional()
ValidArguments(ag, max) ==
    ag = "web_search" => (~max.given \/ (max.value >= 1 /\ max.value <= 20))

\* async ({ query, max_results = 10 })
EffectiveMax(max) == IF max.given THEN max.value ELSE 10

\* the timeout each request of the step carries
SourceTimeoutMsNone(ag, step) == NoTimeout

SourceTimeoutMs(ag, step) ==
    CASE ag = "performWebSearch" /\ step = "Web" -> 10000
      [] ag = "performWebSearch" /\ step # "Web" -> 5000
      [] ag = "web_search" /\ SourceOf(step) = "Web" -> 10000
      [] ag = "web_search" /\ SourceOf(step) # "Web" -> 15000

\* encodeURIComponent(text): letters, digits and _ stay, a blank or a
\* Russian letter is escaped
encodeURIComponent(text) ==
    Concat([i \in 1..Len(text) |->
              IF text[i] = " " \/ text[i] \in RussianLetters
              THEN <<"%", text[i]>> ELSE <<text[i]>>])

\* `https://${host}/wiki/${encodeURIComponent(title.replace(/ /g, '_'))}`
WikiUrl(host, title) ==
    <<"https://", host, "/wiki/">>
        \o encodeURIComponent([i \in 1..Len(title) |->
                                  IF title[i] = " " THEN "_" ELSE title[i]])

\* `https://reddit.com${d.permalink}`
RedditUrl(permalink) == <<"https://", "reddit.com", permalink>>

\* url.startsWith('http')
StartsWithHttp(url) == url # <<>> /\ url[1] \in {"https://", "http://"}

\* new URL(text) accepts the text
ValidUrl(text) == Len(text) >= 2 /\ StartsWithHttp(text)

---------------------------------------------------------------------------
(* What the services answer *)

\* result block i of the DuckDuckGo HTML page: the link after decoding, the
\* title and the snippet text; malformed marks a link whose percent-encoding
\* decodeURIComponent rejects.  The first block links the Wikipedia article,
\* the second a blog post, the third a Reddit thread, the fourth a Stack
\* Overflow question.
WebBlock(i) ==
    LET numeral == <<"1", "2", "3", "4", "5", "6", "7", "8", "9", "10">>[i]
    IN [title |-> <<"Result ", numeral>>,
        url |-> CASE i = 1 -> WikiUrl("en.wikipedia.org", <<"One">>)
                  [] i = 2 -> <<"https://", "blog.example", "/two">>
                  [] i = 3 -> RedditUrl("/r/x/1")
                  [] i = 4 -> <<"https://", "stackoverflow.com", "/q/4">>
                  [] OTHER -> <<"https://", "site.example", "/", numeral>>,
        snippet |-> <<"About ", numeral>>,
        malformed |-> FALSE]

\* the payloads a step's service can answer with
Payloads(ag, step) ==
    LET again == [title |-> <<"Result 1 again">>, url |-> WebBlock(1).url,
                  snippet |-> <<"More about 1">>, malformed |-> FALSE]
        broken == [title |-> <<"Result %">>, url |-> <<"https://", "site.example", "/%">>,
                   snippet |-> <<"About %">>, malformed |-> TRUE]
        \* the instant answer: nothing; an abstract of 31 characters with an
        \* answer and two topics; an abstract of 30 characters; an abstract
        \* with a topic whose FirstURL is no URL
        data(abstract, heading, abstractUrl, abstractSource, answer, topics) ==
            [Abstract |-> abstract, Heading |-> heading, AbstractURL |-> abstractUrl,
             AbstractSource |-> abstractSource, Answer |-> answer,
             RelatedTopics |-> topics]
        wiki(title) ==
            [title |-> title,
             snippet |-> <<"<span>">> \o title \o <<"</span>", " is a number">>]
        hit(title, url, id, points) ==
            [title |-> title, url |-> url, objectID |-> id, points |-> points,
             num_comments |-> <<"3">>, author |-> <<"pg">>,
             created_at |-> <<"2024-01-01T00:00:00.000Z">>]
        post(title, permalink) ==
            [hasData |-> TRUE, title |-> title, subreddit |-> "x", score |-> "1",
             num_comments |-> "2", permalink |-> permalink]
        noData ==
            [hasData |-> FALSE, title |-> <<>>, subreddit |-> "", score |-> "",
             num_comments |-> "", permalink |-> ""]
    IN CASE step = "Web" ->
                {<<>>,
                 <<WebBlock(1), again>>,
                 <<WebBlock(1), WebBlock(2), WebBlock(3)>>,
                 <<WebBlock(1), broken>>,
                 [i \in 1..10 |-> WebBlock(i)]}
         [] SourceOf(step) = "Web" /\ step # "Web" ->
                {<<WebBlock(1), again>>,
                 <<WebBlock(1), WebBlock(2), WebBlock(3)>>}
         [] step = "DuckDuckGo" ->
                {data(<<>>, <<>>, <<>>, <<>>, <<>>, <<>>),
                 data([i \in 1..31 |-> "x"], <<"One">>,
                      WikiUrl("en.wikipedia.org", <<"One">>), <<"Wikipedia">>, <<"42">>,
                      <<[Text |-> <<"About ", "2">>,
                         FirstURL |-> <<"https://", "duckduckgo.com", "/Two">>],
                        [Text |-> <<"Topic">>, FirstURL |-> <<>>]>>),
                 data([i \in 1..30 |-> "x"], <<>>, <<>>, <<>>, <<>>, <<>>),
                 data([i \in 1..31 |-> "x"], <<"One">>, <<>>, <<>>, <<>>,
                      <<[Text |-> <<"Topic">>, FirstURL |-> <<"not a url">>]>>)}
         [] step = "Wikipedia" /\ ag = "performWebSearch" ->
                {<<>>, <<wiki(<<"One">>)>>}
         [] step = "Wikipedia" /\ ag = "web_search" ->
                \* a summary with an extract of 51 characters, one of 50
                {[title |-> <<"One">>, extract |-> [i \in 1..51 |-> "y"],
                  page |-> WikiUrl("en.wikipedia.org", <<"One">>)],
                 [title |-> <<"One">>, extract |-> [i \in 1..50 |-> "y"],
                  page |-> <<>>]}
         [] step = "RuWikipedia" ->
                {<<>>, <<wiki(<<"U+041A", "U+043E", "U+0442">>)>>}
         [] step = "HackerNews" ->
                \* one story links the blog post of the search page, one has
                \* no link
                {<<>>,
                 <<hit(<<"Show HN: Two">>, WebBlock(2).url, "101", <<"5">>),
                   hit(<<"Ask HN">>, <<>>, "102", <<>>)>>}
         [] step = "StackOverflow" ->
                {<<>>,
                 <<[title |-> <<"How to ", "&quot;", "x", "&quot;">>,
                    link |-> WebBlock(4).url, score |-> "1", answer_count |-> "2",
                    view_count |-> "3"]>>}
         [] step = "Reddit" ->
                {<<>>,
                 <<post(<<"Thread">>, "/r/x/1")>>,
                 <<post(<<"Other thread">>, "/r/x/2"), noData>>}

\* what awaiting the step's request yields: a network error, a non-2xx
\* answer, no answer at all, a 2xx answer whose body is not the expected
\* JSON, or a 2xx answer carrying a payload
Responses(ag, step) ==
    {[kind |-> k] : k \in {"error", "status", "hang", "malformed"}}
        \cup {[kind |-> "ok", payload |-> p] : p \in Payloads(ag, step)}

---------------------------------------------------------------------------
(* How the aggregators turn the answers into result entries *)

\* a result object; origin and part record the step and the part of its
\* payload the entry was made from
Entry(title, snippet, url, label, origin, part) ==
    [title |-> title, snippet |-> snippet, url |-> url, source |-> label,
     origin |-> origin, part |-> part]

\* parseSearchResults, method 1: the result blocks in page order, at most 10
RECURSIVE ParseBlocks(_, _)
ParseBlocks(blocks, results) ==
    IF blocks = <<>> \/ Len(results) >= 10
    THEN [threw |-> FALSE, results |-> results]
    ELSE LET block == Head(blocks)
         IN IF block.malformed
            THEN [threw |-> TRUE, results |-> results]
            ELSE IF block.title # <<>> /\ block.url # <<>> /\ StartsWithHttp(block.url)
            THEN ParseBlocks(Tail(blocks),
                     Append(results,
                         Entry(block.title,
                               Or(block.snippet, <<"No description available">>),
                               block.url, <<"Web">>, "Web", "hit")))
            ELSE ParseBlocks(Tail(blocks), results)

\* parseSearchResults, method 2: the links with a snippet whose url is new
RECURSIVE ParseLinks(_, _)
ParseLinks(blocks, results) ==
    IF blocks = <<>> \/ Len(results) >= 10
    THEN results
    ELSE LET block == Head(blocks)
         IN IF /\ ~block.malformed
               /\ block.title # <<>> /\ block.snippet # <<>>
               /\ StartsWithHttp(block.url)
               /\ ~\E k \in 1..Len(results) : results[k].url = block.url
            THEN ParseLinks(Tail(blocks),
                     Append(results,
                         Entry(block.title, block.snippet, block.url, <<"Web">>,
                               "Web", "hit")))
            ELSE ParseLinks(Tail(blocks), results)

parseSearchResults(html) ==
    LET first == ParseBlocks(html, <<>>)
    IN IF first.threw THEN first
       ELSE IF Len(first.results) < 3
       THEN [threw |-> FALSE, results |-> ParseLinks(html, first.results)]
       ELSE first

\* what the loop body does with one item: "skip" it, "push" its entry, or
\* "throw"
ItemAction(ag, step, item, results) ==
    LET some(P(_)) == \E k \in 1..Len(results) : P(results[k])
    IN CASE ag = "performWebSearch" /\ step = "Web" ->
                IF some(LAMBDA r : r.url = item.url) THEN "skip" ELSE "push"
         [] ag = "performWebSearch" /\ step = "DuckDuckGo" ->
                IF item.Text # <<>> /\ ~some(LAMBDA r : r.snippet = item.Text)
                THEN IF item.FirstURL # <<>> /\ ~ValidUrl(item.FirstURL)
                     THEN "throw" ELSE "push"
                ELSE "skip"
         [] ag = "performWebSearch" /\ step \in {"Wikipedia", "RuWikipedia"} ->
                \* the snippet without its tags (never all tags here)
                IF item.snippet # <<>> /\ ~some(LAMBDA r : r.title = item.title)
                THEN "push" ELSE "skip"
         [] ag = "performWebSearch" /\ step = "HackerNews" ->
                IF item.title # <<>> /\ ~some(LAMBDA r : r.title = item.title)
                THEN "push" ELSE "skip"
         [] ag = "performWebSearch" /\ step = "StackOverflow" ->
                IF item.title # <<>> /\ ~some(LAMBDA r : r.url = item.link)
                THEN "push" ELSE "skip"
         [] ag = "performWebSearch" /\ step = "Reddit" ->
                IF ~item.hasData THEN "throw"
                ELSE IF /\ item.title # <<>>
                        /\ ~some(LAMBDA r : r.url = RedditUrl(item.permalink))
                THEN "push" ELSE "skip"
         [] ag = "web_search" /\ step = "DuckDuckGo" ->
                IF item.Text # <<>>
                THEN IF item.FirstURL # <<>> /\ ~ValidUrl(item.FirstURL)
                     THEN "throw" ELSE "push"
                ELSE "skip"
         [] ag = "web_search" /\ SourceOf(step) = "Web" ->
                IF item.title # <<>> /\ item.snippet # <<>>
                THEN IF some(LAMBDA r : r.url = item.url \/ r.snippet = item.snippet)
                     THEN "skip" ELSE "push"
                ELSE "skip"
         [] ag = "web_search" /\ step = "HackerNews" -> "push"

\* the entry the loop body pushes for an item
EntryOf(ag, step, item) ==
    LET \* snippet.replace(/<[^>]+>/g, '')
        stripTags(text) == SelectSeq(text, LAMBDA t : t \notin {"<span>", "</span>"})
        \* title.replace(/&quot;/g, '"').replace(/&#39;/g, "'").replace(/&amp;/g, '&')
        replaceEntities(text) ==
            [i \in 1..Len(text) |->
                CASE text[i] = "&quot;" -> "\""
                  [] text[i] = "&#39;" -> "'"
                  [] text[i] = "&amp;" -> "&"
                  [] OTHER -> text[i]]
        \* new Date(created_at).toLocaleDateString()
        toLocaleDateString(createdAt) ==
            IF createdAt = <<"2024-01-01T00:00:00.000Z">> THEN <<"1/1/2024">>
            ELSE <<"Invalid Date">>
        itemUrl == <<"https://", "news.ycombinator.com", "/item?id=", item.objectID>>
    IN CASE ag = "performWebSearch" /\ step = "Web" -> item
         [] step = "DuckDuckGo" ->
               \* new URL(topic.FirstURL).hostname
               Entry(IF item.FirstURL # <<>> THEN <<item.FirstURL[2]>> ELSE <<"Related">>,
                     item.Text, item.FirstURL, <<"DuckDuckGo">>, step, "topic")
         [] step = "Wikipedia" ->
               Entry(item.title, stripTags(item.snippet),
                     WikiUrl("en.wikipedia.org", item.title), <<"Wikipedia">>, step, "hit")
         [] step = "RuWikipedia" ->
               Entry(item.title, stripTags(item.snippet),
                     WikiUrl("ru.wikipedia.org", item.title),
                     <<"U+0412", "U+0438", "U+043A", "U+0438", "U+043F", "U+0435",
                       "U+0434", "U+0438", "U+044F">>, step, "hit")
         [] ag = "performWebSearch" /\ step = "HackerNews" ->
               Entry(item.title,
                     Or(item.points, <<"0">>) \o <<" points | ">>
                         \o Or(item.num_comments, <<"0">>) \o <<" comments | by ">>
                         \o Or(item.author, <<"unknown">>) \o <<" | ">>
                         \o toLocaleDateString(item.created_at),
                     Or(item.url, itemUrl), <<"Hacker News">>, step, "hit")
         [] step = "StackOverflow" ->
               Entry(replaceEntities(item.title),
                     <<"Score: ", item.score, " | Answers: ", item.answer_count,
                       " | Views: ", item.view_count>>,
                     item.link, <<"Stack Overflow">>, step, "hit")
         [] step = "Reddit" ->
               Entry(item.title,
                     <<"r/", item.subreddit, " | ", item.score, " upvotes | ",
                       item.num_comments, " comments">>,
                     RedditUrl(item.permalink), <<"Reddit">>, step, "hit")
         [] ag = "web_search" /\ SourceOf(step) = "Web" ->
               Entry(item.title, item.snippet, item.url, <<"Web">>, "Web", "hit")
         [] ag = "web_search" /\ step = "HackerNews" ->
               Entry(Or(item.title, <<"Hacker News">>),
                     Or(item.points, <<"0">>) \o <<" points | ">>
                         \o Or(item.num_comments, <<"0">>) \o <<" comments | ">>
                         \o Or(item.author, <<"unknown">>),
                     Or(item.url, itemUrl), <<"Hacker News">>, step, "hit")

\* the loop of the step over its items; web_search stops scraping and stops
\* reading stories once max_results entries are collected
RECURSIVE PushEach(_, _, _, _, _)
PushEach(ag, step, items, results, max) ==
    IF \/ items = <<>>
       \/ (ag = "web_search" /\ step # "DuckDuckGo" /\ Len(results) >= max)
    THEN [threw |-> FALSE, results |-> results]
    ELSE LET action == ItemAction(ag, step, Head(items), results)
         IN CASE action = "throw" -> [threw |-> TRUE, results |-> results]
              [] action = "skip" -> PushEach(ag, step, Tail(items), results, max)
              [] action = "push" ->
                    PushEach(ag, step, Tail(items),
                             Append(results, EntryOf(ag, step, Head(items))), max)

\* allResults.unshift(entry)
UnshiftAtEnd(results, entry) == Append(results, entry)

Unshift(results, entry) == <<entry>> \o results

\* the Abstract and Answer of the instant answer, placed before the topics
QuickAnswers(ag, data, results) ==
    IF ag = "performWebSearch"
    THEN LET abstract ==
                 IF data.Abstract # <<>> /\ Len(data.Abstract) > 30
                 THEN Unshift(results,
                          Entry(Or(data.Heading, <<"Quick Answer">>), data.Abstract,
                                data.AbstractURL, Or(data.AbstractSource, <<"DuckDuckGo">>),
                                "DuckDuckGo", "abstract"))
                 ELSE results
         IN IF data.Answer # <<>>
            THEN Unshift(abstract,
                     Entry(<<"Direct Answer">>, data.Answer, <<>>, <<"DuckDuckGo">>,
                           "DuckDuckGo", "answer"))
            ELSE abstract
    ELSE LET abstract ==
                 IF data.Abstract # <<>>
                 THEN Append(results,
                          Entry(Or(data.Heading, <<"DuckDuckGo Result">>), data.Abstract,
                                data.AbstractURL, Or(data.AbstractSource, <<"DuckDuckGo">>),
                                "DuckDuckGo", "abstract"))
                 ELSE results
         IN IF data.Answer # <<>>
            THEN Append(abstract,
                     Entry(<<"Direct Answer">>, data.Answer, <<>>, <<"DuckDuckGo">>,
                           "DuckDuckGo", "answer"))
            ELSE abstract

\* the body of the step's try block run on a 2xx answer with a payload
ProcessPayload(ag, step, payload, results, q, max) ==
    CASE ag = "performWebSearch" /\ step = "Web" ->
            LET parsed == parseSearchResults(payload)
            IN IF parsed.threw THEN [threw |-> TRUE, results |-> results]
               ELSE PushEach(ag, step, parsed.results, results, max)
      [] step = "DuckDuckGo" ->
            PushEach(ag, step,
                     Take(payload.RelatedTopics, IF ag = "performWebSearch" THEN 3 ELSE 5),
                     QuickAnswers(ag, payload, results), max)
      [] ag = "web_search" /\ step = "Wikipedia" ->
            IF payload.extract # <<>> /\ Len(payload.extract) > 50
            THEN [threw |-> FALSE,
                  results |-> Append(results,
                      Entry(Or(payload.title, q), payload.extract,
                            Or(payload.page,
                               <<"https://", "en.wikipedia.org", "/wiki/">>
                                   \o encodeURIComponent(q)),
                            <<"Wikipedia">>, step, "hit"))]
            ELSE [threw |-> FALSE, results |-> results]
      [] ag = "performWebSearch" /\ step = "HackerNews" ->
            PushEach(ag, step, Take(payload, 5), results, max)
      [] ag = "performWebSearch" /\ step \in {"StackOverflow", "Reddit"} ->
            PushEach(ag, step, Take(payload, 3), results, max)
      [] OTHER -> PushEach(ag, step, payload, results, max)

\* the parts of the step that stand inside its try block
StepTryCoversRequestOnly(ag, step) == {"request"}

StepTryCovers(ag, step) == {"request", "json", "convert"}

\* the step on the answer it awaited: the results after it and how it ended
ProcessAnswer(ag, step, answer, results, q, max) ==
    LET done == IF answer.kind = "ok"
                THEN ProcessPayload(ag, step, answer.payload, results, q, max)
                ELSE [threw |-> answer.kind # "status", results |-> results]
        end == CASE answer.kind = "hang" -> "timedOut"
                 [] answer.kind \in {"error", "status", "malformed"} -> "failed"
                 [] answer.kind = "ok" -> IF done.threw THEN "threw" ELSE "ok"
        \* the part of the step in which the answer shows
        phase == CASE answer.kind \in {"error", "status", "hang"} -> "request"
                   [] answer.kind = "malformed" -> "json"
                   [] answer.kind = "ok" -> "convert"
    IN IF done.threw /\ phase \notin StepTryCovers(ag, step)
       THEN [fate |-> "escaped", results |-> done.results]
       ELSE [fate |-> end, results |-> done.results]

\* whether the aggregator runs the step
SourceEnabled(ag, step, q, results, max) ==
    CASE ag = "performWebSearch" /\ step = "RuWikipedia" -> hasRussian(q)
      [] ag = "performWebSearch" /\ step = "StackOverflow" -> SomeKeyword(progKeywords, q)
      [] ag = "web_search" /\ SourceOf(step) = "Web" -> Len(results) < max
      [] ag = "web_search" /\ step = "HackerNews" -> SomeKeyword(techKeywords, q)
      [] OTHER -> TRUE

\* the value the aggregator returns
ReturnValueUncapped(ag, results, max) ==
    IF ag = "performWebSearch"
    THEN IF Len(results) > 0
         THEN [state |-> "returned", success |-> TRUE, results |-> results,
               source |-> "multi-source"]
         ELSE [state |-> "returned", success |-> FALSE, results |-> <<>>,
               error |-> "Search failed - no results from any source"]
    ELSE IF Len(results) = 0
         THEN [state |-> "returned", isError |-> FALSE, results |-> <<>>,
               text |-> "No search results found"]
         ELSE [state |-> "returned", isError |-> FALSE,
               results |-> results, found |-> Len(results)]

ReturnValue(ag, results, max) ==
    IF ag = "performWebSearch"
    THEN IF Len(results) > 0
         THEN [state |-> "returned", success |-> TRUE, results |-> Take(results, 15),
               source |-> "multi-source"]
         ELSE [state |-> "returned", success |-> FALSE, results |-> <<>>,
               error |-> "Search failed - no results from any source"]
    ELSE IF Len(results) = 0
         THEN [state |-> "returned", isError |-> FALSE, results |-> <<>>,
               text |-> "No search results found"]
         ELSE [state |-> "returned", isError |-> FALSE,
               results |-> Take(results, max), found |-> Len(results)]

InitSearch ==
    /\ aggregator \in Aggregators
    /\ query \in Queries
    /\ maxResults \in IF aggregator = "web_search" THEN MaxResultsArguments
                      ELSE {[given |-> FALSE, value |-> 0]}
    /\ cursor = 1
    /\ inflight = [kind |-> "none"]
    /\ allResults = <<>>
    /\ fate = <<>>
    /\ searchResult = [state |-> "pending"]
    /\ StreamIdle /\ ExtractIdle /\ FetchIdle /\ AppIdle

\* the schema of the tool refuses the arguments; the handler does not run
RejectArguments ==
    /\ searchResult = [state |-> "pending"]
    /\ ~ValidArguments(aggregator, maxResults)
    /\ searchResult' = [state |-> "rejected"]
    /\ UNCHANGED <<aggregator, query, maxResults, cursor, inflight, allResults, fate,
                   streamVars, extractVars, fetchVars, appVars>>

\* the request of the next step is sent and awaited
QuerySource ==
    /\ searchResult = [state |-> "pending"]
    /\ ValidArguments(aggregator, maxResults)
    /\ cursor <= Len(SourceOrder(aggregator))
    /\ inflight = [kind |-> "none"]
    /\ SourceEnabled(aggregator, SourceOrder(aggregator)[cursor], query, allResults, EffectiveMax(maxResults))
    /\ inflight' \in Responses(aggregator, SourceOrder(aggregator)[cursor])
    /\ UNCHANGED <<aggregator, query, maxResults, cursor, allResults, fate, searchResult,
                   streamVars, extractVars, fetchVars, appVars>>

\* the condition guarding the step is false
SkipSource ==
    /\ searchResult = [state |-> "pending"]
    /\ ValidArguments(aggregator, maxResults)
    /\ cursor <= Len(SourceOrder(aggregator))
    /\ inflight = [kind |-> "none"]
    /\ ~SourceEnabled(aggregator, SourceOrder(aggregator)[cursor], query, allResults, EffectiveMax(maxResults))
    /\ fate' = Append(fate, "skipped")
    /\ cursor' = cursor + 1
    /\ UNCHANGED <<aggregator, query, maxResults, inflight, allResults, searchResult,
                   streamVars, extractVars, fetchVars, appVars>>

\* the awaited answer (or the timeout) arrives and the step's try block runs
ProcessResponse ==
    /\ inflight # [kind |-> "none"]
    /\ inflight.kind = "hang" =>
          SourceTimeoutMs(aggregator, SourceOrder(aggregator)[cursor]) # NoTimeout
    /\ LET done == ProcessAnswer(aggregator, SourceOrder(aggregator)[cursor], inflight,
                                 allResults, query, EffectiveMax(maxResults))
       IN /\ allResults' = done.results
          /\ fate' = Append(fate, done.fate)
          \* an exception leaving the step: performWebSearch has no handler
          \* around its steps, web_search answers from its outer catch
          /\ searchResult' =
                IF done.fate # "escaped" THEN searchResult
                ELSE IF aggregator = "performWebSearch" THEN [state |-> "thrown"]
                ELSE [state |-> "returned", isError |-> TRUE, results |-> <<>>,
                      text |-> "Error performing web search"]
    /\ cursor' = cursor + 1
    /\ inflight' = [kind |-> "none"]
    /\ UNCHANGED <<aggregator, query, maxResults, streamVars, extractVars, fetchVars, appVars>>

\* every step is done
ReturnResults ==
    /\ searchResult = [state |-> "pending"]
    /\ cursor > Len(SourceOrder(aggregator))
    /\ searchResult' = ReturnValue(aggregator, allResults, EffectiveMax(maxResults))
    /\ UNCHANGED <<aggregator, query, maxResults, cursor, inflight, allResults, fate,
                   streamVars, extractVars, fetchVars, appVars>>

NextSearch == RejectArguments \/ QuerySource \/ SkipSource \/ ProcessResponse \/ ReturnResults

SpecSearch == InitSearch /\ [][NextSearch]_vars

\* performWebSearch alone; the JavaScript event loop resumes the call when
\* the awaited promise settles
InitPerformWebSearch == InitSearch /\ aggregator = "performWebSearch"

NextPerformWebSearch == QuerySource \/ SkipSource \/ ProcessResponse \/ ReturnResults

SpecPerformWebSearchFair ==
    InitPerformWebSearch /\ [][NextPerformWebSearch]_vars /\ WF_vars(NextPerformWebSearch)

---------------------------------------------------------------------------
(* Claims about the SearchAggregator *)

Returned == searchResult.state = "returned"

\* the result list handed to the caller
Listed == searchResult.results

\* the steps that ended in a failure of their call
FailedFates == {"failed", "timedOut", "threw"}

\* C14: in every list an aggregator returns no two results have the same
\* url and no two results have the same non-empty snippet.
C14_DedupInvariant ==
    Returned =>
        \A i, j \in 1..Len(Listed) :
            i < j =>
                /\ Listed[i].url # Listed[j].url
                /\ Listed[i].snippet # <<>> => Listed[i].snippet # Listed[j].snippet

\* C15 as stated: no aggregator returns more than max_results results,
\* max_results being 10 when the caller gives none and always within 1..20.
C15_Original ==
    Returned =>
        /\ Len(Listed) <= EffectiveMax(maxResults)
        /\ EffectiveMax(maxResults) \in 1..20
        /\ ~maxResults.given => EffectiveMax(maxResults) = 10

\* C15: web_search returns at most max_results results, max_results being
\* 10 when the caller gives none and within 1..20 whenever the handler runs;
\* performWebSearch takes no max_results and returns at most 15 results.
C15_Cap ==
    Returned =>
        /\ aggregator = "web_search" =>
              /\ Len(Listed) <= EffectiveMax(maxResults)
              /\ EffectiveMax(maxResults) \in 1..20
              /\ ~maxResults.given => EffectiveMax(maxResults) = 10
        /\ aggregator = "performWebSearch" => Len(Listed) <= 15

\* web_search called with max_results 2 collected four entries and lists two
C15_Witness ==
    /\ aggregator = "web_search"
    /\ maxResults = [given |-> TRUE, value |-> 2]
    /\ Len(allResults) = 4
    /\ Returned /\ Len(Listed) = 2

C17_SourceIsolation ==
    Returned =>
        \A k \in 1..Len(fate) :
            fate[k] \in FailedFates =>
                \A i \in 1..Len(Listed) :
                    Listed[i].origin # SourceOrder(aggregator)[k]

\* the sources performWebSearch runs for the query
EnabledForQuery(k) ==
    SourceEnabled("performWebSearch", SourceOrder("performWebSearch")[k], query,
                  <<>>, 10)

\* C18: performWebSearch eventually returns, and when it does every source
\* enabled for the query was queried, whatever the other sources did.
C18_BulkheadLiveness ==
    <>(aggregator = "performWebSearch" =>
          /\ Returned
          /\ Len(fate) = Len(SourceOrder(aggregator))
          /\ \A k \in 1..Len(fate) : EnabledForQuery(k) => fate[k] # "skipped")

\* the scrape and Hacker News never answer, the instant answer fails,
\* Wikipedia and Reddit are still queried and Reddit adds an entry
C18_Witness ==
    /\ aggregator = "performWebSearch"
    /\ Len(fate) = 7
    /\ fate[1] = "timedOut" /\ fate[2] = "failed" /\ fate[3] = "ok"
    /\ fate[5] = "timedOut"
    /\ fate[7] = "ok"
    /\ Returned /\ searchResult.success
    /\ \E i \in 1..Len(Listed) : Listed[i].origin = "Reddit"

\* the three classes of the merge order
ClassRank(entry) ==
    CASE entry.origin = "DuckDuckGo" -> 1
      [] entry.origin = "Web" -> 2
      [] OTHER -> 3

\* C19 as stated: every entry of the quick-answer source precedes every
\* scraped web entry, which precedes every entry of a supplementary source.
C19_Original ==
    Returned =>
        \A i, j \in 1..Len(Listed) :
            i < j => ClassRank(Listed[i]) <= ClassRank(Listed[j])

\* the place of an entry in the list the aggregator builds
MergeRank(ag, entry) ==
    IF ag = "performWebSearch"
    THEN CASE entry.part = "answer" -> 1
           [] entry.part = "abstract" -> 2
           [] entry.origin = "Web" -> 3
           [] entry.part = "topic" -> 4
           [] entry.origin = "Wikipedia" -> 5
           [] entry.origin = "RuWikipedia" -> 6
           [] entry.origin = "HackerNews" -> 7
           [] entry.origin = "StackOverflow" -> 8
           [] entry.origin = "Reddit" -> 9
    ELSE CASE entry.part = "abstract" -> 1
           [] entry.part = "answer" -> 2
           [] entry.part = "topic" -> 3
           [] entry.origin = "Wikipedia" -> 4
           [] entry.origin = "Web" -> 5
           [] entry.origin = "HackerNews" -> 6

\* C19: performWebSearch lists the Answer, then the Abstract of the
\* quick-answer source, then the scraped web entries, then the related
\* topics of the quick-answer source, then Wikipedia, Russian Wikipedia,
\* Hacker News, Stack Overflow and Reddit; web_search lists the Abstract, the
\* Answer and the related topics, then Wikipedia, then the scraped web
\* entries, then Hacker News.
C19_MergeOrder ==
    Returned =>
        \A i, j \in 1..Len(Listed) :
            i < j => MergeRank(aggregator, Listed[i]) <= MergeRank(aggregator, Listed[j])

\* performWebSearch: answer, abstract, three web entries, a related topic,
\* a Hacker News story
C19_Witness ==
    /\ aggregator = "performWebSearch"
    /\ Returned
    /\ Len(Listed) >= 7
    /\ Listed[1].part = "answer" /\ Listed[2].part = "abstract"
    /\ \A i \in 3..5 : Listed[i].origin = "Web"
    /\ Listed[6].part = "topic"
    /\ \E i \in 7..Len(Listed) : Listed[i].origin = "HackerNews"

\* C20: a result whose url equals the url of a result a source of higher
\* priority contributed is discarded: no two entries of different sources in
\* the returned list have the same url.
C20_DuplicateResolution ==
    Returned =>
        \A i, j \in 1..Len(Listed) :
            (i < j /\ Listed[i].origin # Listed[j].origin)
                => Listed[i].url # Listed[j].url

---------------------------------------------------------------------------
(* IntentClassifier: detectQueryIntent, and the routing of smartWebSearch
   and streamWebSearchCompletion between the direct-answer providers and
   performWebSearch.  A pattern is a sequence of elements: a literal text,
   a set of characters, \s* or \s+, .*?, \d+, an optional group, or an
   alternation of literal words. *)

\* the positions where a match of the pattern that starts after position
\* from can end
RECURSIVE MatchEnds(_, _, _)
MatchEnds(pattern, text, from) ==
    IF pattern = <<>> THEN {from}
    ELSE LET e == Head(pattern)
             blank(a, b) == \A i \in (a + 1)..b : text[i] = " "
             digit(a, b) ==
                 \A i \in (a + 1)..b :
                     text[i] \in {"0", "1", "2", "3", "4", "5", "6", "7", "8", "9"}
             word(w) ==
                 IF from + Len(w) <= Len(text) /\ SubSeq(text, from + 1, from + Len(w)) = w
                 THEN {from + Len(w)} ELSE {}
             ends ==
                 CASE e.t = "lit" -> word(e.s)
                   [] e.t = "set" ->
                        IF from < Len(text) /\ text[from + 1] \in e.of
                        THEN {from + 1} ELSE {}
                   [] e.t = "ws*" -> {p \in from..Len(text) : blank(from, p)}
                   [] e.t = "ws+" -> {p \in (from + 1)..Len(text) : blank(from, p)}
                   [] e.t = "any" -> from..Len(text)
                   [] e.t = "digits" -> {p \in (from + 1)..Len(text) : digit(from, p)}
                   [] e.t = "opt" -> {from} \cup MatchEnds(e.p, text, from)
                   [] e.t = "alt" -> UNION {word(e.ws[k]) : k \in 1..Len(e.ws)}
         IN UNION {MatchEnds(Tail(pattern), text, p) : p \in ends}

\* const timePatterns
timePatterns ==
    <<
      \* /kakoe?\s*(segodnya\s*)?(chislo|resultsData|vremya|den)/i, in Russian letters
      <<[t |-> "lit", s |-> <<"U+043A", "U+0430", "U+043A", "U+043E">>],
        [t |-> "opt", p |-> <<[t |-> "lit", s |-> <<"U+0435">>]>>],
        [t |-> "ws*"],
        [t |-> "opt", p |-> <<[t |-> "lit", s |-> <<"U+0441", "U+0435", "U+0433",
            "U+043E", "U+0434", "U+043D", "U+044F">>], [t |-> "ws*"]>>],
        [t |-> "alt", ws |-> <<<<"U+0447", "U+0438", "U+0441", "U+043B", "U+043E">>,
            <<"U+0434", "U+0430", "U+0442", "U+0430">>, <<"U+0432", "U+0440", "U+0435",
            "U+043C", "U+044F">>, <<"U+0434", "U+0435", "U+043D", "U+044C">>>>]>>,
      \* /skolko\s*(seychas\s*)?(vremeni|vremya)/i, in Russian letters
      <<[t |-> "lit", s |-> <<"U+0441", "U+043A", "U+043E", "U+043B", "U+044C", "U+043A",
            "U+043E">>],
        [t |-> "ws*"],
        [t |-> "opt", p |-> <<[t |-> "lit", s |-> <<"U+0441", "U+0435", "U+0439",
            "U+0447", "U+0430", "U+0441">>], [t |-> "ws*"]>>],
        [t |-> "alt", ws |-> <<<<"U+0432", "U+0440", "U+0435", "U+043C", "U+0435",
            "U+043D", "U+0438">>, <<"U+0432", "U+0440", "U+0435", "U+043C", "U+044F">>>>]>>,
      \* /kotoryy\s+chas/i, in Russian letters
      <<[t |-> "lit", s |-> <<"U+043A", "U+043E", "U+0442", "U+043E", "U+0440", "U+044B",
            "U+0439">>],
        [t |-> "ws+"],
        [t |-> "lit", s |-> <<"U+0447", "U+0430", "U+0441">>]>>,
      \* /what\s*(is\s*the\s*)?(time|date|day)/i
      <<[t |-> "lit", s |-> <<"w", "h", "a", "t">>],
        [t |-> "ws*"],
        [t |-> "opt", p |-> <<[t |-> "lit", s |-> <<"i", "s">>], [t |-> "ws*"],
            [t |-> "lit", s |-> <<"t", "h", "e">>], [t |-> "ws*"]>>],
        [t |-> "alt", ws |-> <<<<"t", "i", "m", "e">>, <<"d", "a", "t", "e">>, <<"d",
            "a", "y">>>>]>>,
      \* /current\s*(time|date)/i
      <<[t |-> "lit", s |-> <<"c", "u", "r", "r", "e", "n", "t">>],
        [t |-> "ws*"],
        [t |-> "alt", ws |-> <<<<"t", "i", "m", "e">>, <<"d", "a", "t", "e">>>>]>>
    >>

\* const weatherPatterns
weatherPatterns ==
    <<
      \* /pogod[aeuy]/i, in Russian letters
      <<[t |-> "lit", s |-> <<"U+043F", "U+043E", "U+0433", "U+043E", "U+0434">>],
        [t |-> "set", of |-> {"U+0430", "U+0435", "U+0443", "U+044B"}]>>,
      \* /weather/i
      <<[t |-> "lit", s |-> <<"w", "e", "a", "t", "h", "e", "r">>]>>,
      \* /temperatur[aeuy]/i, in Russian letters
      <<[t |-> "lit", s |-> <<"U+0442", "U+0435", "U+043C", "U+043F", "U+0435", "U+0440",
            "U+0430", "U+0442", "U+0443", "U+0440">>],
        [t |-> "set", of |-> {"U+0430", "U+0435", "U+0443", "U+044B"}]>>,
      \* /temperature/i
      <<[t |-> "lit", s |-> <<"t", "e", "m", "p", "e", "r", "a", "t", "u", "r", "e">>]>>,
      \* /kakaya\s+pogoda/i, in Russian letters
      <<[t |-> "lit", s |-> <<"U+043A", "U+0430", "U+043A", "U+0430", "U+044F">>],
        [t |-> "ws+"],
        [t |-> "lit", s |-> <<"U+043F", "U+043E", "U+0433", "U+043E", "U+0434",
            "U+0430">>]>>
    >>

\* const currencyPatterns
currencyPatterns ==
    <<
      \* /kurs/i, in Russian letters
      <<[t |-> "lit", s |-> <<"U+043A", "U+0443", "U+0440", "U+0441">>]>>,
      \* /exchange\s*rate/i
      <<[t |-> "lit", s |-> <<"e", "x", "c", "h", "a", "n", "g", "e">>],
        [t |-> "ws*"],
        [t |-> "lit", s |-> <<"r", "a", "t", "e">>]>>,
      \* /skolko\s+(stoit|budet).*?(dollar|evro|rubl|bitcoin|btc|eth)/i, the first six words in Russian letters
      <<[t |-> "lit", s |-> <<"U+0441", "U+043A", "U+043E", "U+043B", "U+044C", "U+043A",
            "U+043E">>],
        [t |-> "ws+"],
        [t |-> "alt", ws |-> <<<<"U+0441", "U+0442", "U+043E", "U+0438", "U+0442">>,
            <<"U+0431", "U+0443", "U+0434", "U+0435", "U+0442">>>>],
        [t |-> "any"],
        [t |-> "alt", ws |-> <<<<"U+0434", "U+043E", "U+043B", "U+043B", "U+0430",
            "U+0440">>, <<"U+0435", "U+0432", "U+0440", "U+043E">>, <<"U+0440", "U+0443",
            "U+0431", "U+043B">>, <<"b", "i", "t", "c", "o", "i", "n">>, <<"b", "t", "c">>,
            <<"e", "t", "h">>>>]>>,
      \* /convert.*?(usd|eur|rub|btc)/i
      <<[t |-> "lit", s |-> <<"c", "o", "n", "v", "e", "r", "t">>],
        [t |-> "any"],
        [t |-> "alt", ws |-> <<<<"u", "s", "d">>, <<"e", "u", "r">>, <<"r", "u", "b">>,
            <<"b", "t", "c">>>>]>>,
      \* /(\d+)\s*(usd|eur|rub|dollar|euro|rubl)/i, the last word in Russian letters
      <<[t |-> "digits"],
        [t |-> "ws*"],
        [t |-> "alt", ws |-> <<<<"u", "s", "d">>, <<"e", "u", "r">>, <<"r", "u", "b">>,
            <<"d", "o", "l", "l", "a", "r">>, <<"e", "u", "r", "o">>, <<"U+0440", "U+0443",
            "U+0431", "U+043B">>>>]>>
    >>

\* const newsPatterns; the fourth pattern holds two U+FFFD characters in the
\* place of the second letter of its first word
newsPatterns ==
    <<
      \* /novost[i'ya]/i, in Russian letters
      <<[t |-> "lit", s |-> <<"U+043D", "U+043E", "U+0432", "U+043E", "U+0441",
            "U+0442">>],
        [t |-> "set", of |-> {"U+0438", "U+044C", "U+044F"}]>>,
      \* /news/i
      <<[t |-> "lit", s |-> <<"n", "e", "w", "s">>]>>,
      \* /chto\s+(novogo|proiskhodit|sluchilos)/i, in Russian letters
      <<[t |-> "lit", s |-> <<"U+0447", "U+0442", "U+043E">>],
        [t |-> "ws+"],
        [t |-> "alt", ws |-> <<<<"U+043D", "U+043E", "U+0432", "U+043E", "U+0433",
            "U+043E">>, <<"U+043F", "U+0440", "U+043E", "U+0438", "U+0441", "U+0445",
            "U+043E", "U+0434", "U+0438", "U+0442">>, <<"U+0441", "U+043B", "U+0443",
            "U+0447", "U+0438", "U+043B", "U+043E", "U+0441", "U+044C">>>>]>>,
      \* /p??slednie\s+(sobytiya|novosti)/i, in Russian letters
      <<[t |-> "lit", s |-> <<"U+043F", "U+FFFD", "U+FFFD", "U+0441", "U+043B", "U+0435",
            "U+0434", "U+043D", "U+0438", "U+0435">>],
        [t |-> "ws+"],
        [t |-> "alt", ws |-> <<<<"U+0441", "U+043E", "U+0431", "U+044B", "U+0442",
            "U+0438", "U+044F">>, <<"U+043D", "U+043E", "U+0432", "U+043E", "U+0441",
            "U+0442", "U+0438">>>>]>>
    >>

\* patterns.some(p => p.test(lowerQuery))
SomePattern(patterns, lowerQuery) ==
    \E k \in 1..Len(patterns) :
        \E from \in 0..Len(lowerQuery) : MatchEnds(patterns[k], lowerQuery, from) # {}

detectQueryIntentNewsFirst(q) ==
    LET lowerQuery == ToLowerCase(q)
    IN IF SomePattern(newsPatterns, lowerQuery) THEN "news"
       ELSE IF SomePattern(timePatterns, lowerQuery) THEN "time"
       ELSE IF SomePattern(weatherPatterns, lowerQuery) THEN "weather"
       ELSE IF SomePattern(currencyPatterns, lowerQuery) THEN "currency"
       ELSE "search"

detectQueryIntent(q) ==
    LET lowerQuery == ToLowerCase(q)
    IN IF SomePattern(timePatterns, lowerQuery) THEN "time"
       ELSE IF SomePattern(weatherPatterns, lowerQuery) THEN "weather"
       ELSE IF SomePattern(currencyPatterns, lowerQuery) THEN "currency"
       ELSE IF SomePattern(newsPatterns, lowerQuery) THEN "news"
       ELSE "search"

\* the queries a caller passes
RouterQueries ==
    {<<>>,
     <<"c", "a", "t">>,
     <<"W", "h", "a", "t", " ", "t", "i", "m", "e">>,
     <<"c", "u", "r", "r", "e", "n", "t", " ", "d", "a", "t", "e", " ", "w", "e", "a",
         "t", "h", "e", "r">>,
     <<"W", "e", "a", "t", "h", "e", "r", " ", "n", "e", "w", "s">>,
     <<"w", "e", "a", "t", "h", "e", "r", " ", "i", "n", " ", "O", "s", "l", "o">>,
     <<"e", "x", "c", "h", "a", "n", "g", "e", " ", "r", "a", "t", "e">>,
     <<"1", "0", "0", " ", "u", "s", "d">>,
     <<"u", "s", "d", " ", "n", "e", "w", "s">>,
     <<"n", "e", "w", "s", " ", "a", "b", "o", "u", "t", " ", "c", "a", "t", "s">>,
     <<"U+043A", "U+0443", "U+0440", "U+0441", " ", "U+043F", "U+043E", "U+0433",
         "U+043E", "U+0434", "U+0430">>,
     <<"U+043A", "U+043E", "U+0442", "U+043E", "U+0440", "U+044B", "U+0439", " ",
         "U+0447", "U+0430", "U+0441">>,
     <<"U+0441", "U+043A", "U+043E", "U+043B", "U+044C", "U+043A", "U+043E", " ",
         "U+0441", "U+0442", "U+043E", "U+0438", "U+0442", " ", "U+0434", "U+043E", "U+043B",
         "U+043B", "U+0430", "U+0440">>,
     <<"U+043D", "U+043E", "U+0432", "U+043E", "U+0441", "U+0442", "U+0438">>,
     <<"U+043F", "U+043E", "U+0441", "U+043B", "U+0435", "U+0434", "U+043D", "U+0438",
         "U+0435", " ", "U+0441", "U+043E", "U+0431", "U+044B", "U+0442", "U+0438",
         "U+044F">>,
     <<"U+0447", "U+0442", "U+043E", " ", "U+043D", "U+043E", "U+0432", "U+043E",
         "U+0433", "U+043E">>}

\* query.match(/(\d+)?\s*(usd|eur|rub|dollar|euro|dollar|evro|rubl)/gi), the last
\* three words in Russian letters: whether it finds a match
currencyMatch(q) ==
    SomePattern(<<<<[t |-> "opt", p |-> <<[t |-> "digits"]>>],
           [t |-> "ws*"],
           [t |-> "alt", ws |-> <<<<"u", "s", "d">>, <<"e", "u", "r">>, <<"r", "u",
               "b">>, <<"d", "o", "l", "l", "a", "r">>, <<"e", "u", "r", "o">>, <<"U+0434",
               "U+043E", "U+043B", "U+043B", "U+0430", "U+0440">>, <<"U+0435", "U+0432",
               "U+0440", "U+043E">>, <<"U+0440", "U+0443", "U+0431", "U+043B">>>>]>>>>,
         ToLowerCase(q))

InitRouter ==
    /\ router \in {"smartWebSearch", "streamWebSearchCompletion"}
    /\ routerQuery \in RouterQueries
    /\ urls \in IF router = "streamWebSearchCompletion" THEN {<<>>, <<"url">>} ELSE {<<>>}
    /\ routerPc = "start"
    /\ intent = "none"
    /\ resultsData = [provider |-> "none", hasSuccess |-> FALSE, success |-> FALSE]
    /\ webContext = <<>>
    /\ searched = FALSE
    /\ StreamIdle /\ ExtractIdle /\ FetchIdle /\ SearchIdle
    /\ NewsIdle /\ UiIdle /\ StoreIdle

\* const intent = detectQueryIntent(query)
DetectIntent ==
    /\ routerPc = "start"
    /\ intent' = detectQueryIntent(routerQuery)
    /\ routerPc' = "direct"
    /\ UNCHANGED <<router, routerQuery, urls, resultsData, webContext, searched>>
    /\ UNCHANGED <<streamVars, extractVars, fetchVars, searchVars, newsVars, uiVars,
                   storeVars>>

\* the special handling of the intent: the switch of smartWebSearch, the
\* four if blocks of streamWebSearchCompletion.  getCurrentDateTime returns
\* an object without a success field; the awaited providers return an object
\* whose success field says whether they got an answer (getNewsHeadlines:
\* whether it has a headline).
HandleIntent ==
    /\ routerPc = "direct"
    /\ \E ok \in BOOLEAN :
          LET called ==
                  CASE intent = "time" -> TRUE
                    [] intent = "weather" -> TRUE
                    [] intent = "currency" ->
                         router = "streamWebSearchCompletion" \/ currencyMatch(routerQuery)
                    [] intent = "news" -> TRUE
                    [] intent = "search" -> FALSE
          IN /\ resultsData' = IF ~called THEN resultsData
                        ELSE IF intent = "time"
                        THEN [provider |-> "time", hasSuccess |-> FALSE, success |-> FALSE]
                        ELSE [provider |-> intent, hasSuccess |-> TRUE, success |-> ok]
             /\ webContext' =
                    IF router = "streamWebSearchCompletion" /\ called
                           /\ (intent = "time" \/ ok)
                    THEN Append(webContext, intent)
                    ELSE webContext
             \* an intent that awaits nothing has one outcome
             /\ (~called \/ intent = "time") => ok
    /\ routerPc' = "search"
    /\ UNCHANGED <<router, routerQuery, urls, intent, searched>>
    /\ UNCHANGED <<streamVars, extractVars, fetchVars, searchVars, newsVars, uiVars,
                   storeVars>>

\* if (intent === 'search' || !results.resultsData?.success) in smartWebSearch;
\* if ((!urls || urls.length === 0) && (intent === 'search' || !webContext))
\* in streamWebSearchCompletion: whether performWebSearch is invoked
WebSearch ==
    /\ routerPc = "search"
    /\ searched' =
          IF router = "smartWebSearch"
          THEN intent = "search" \/ ~(resultsData.hasSuccess /\ resultsData.success)
          ELSE urls = <<>> /\ (intent = "search" \/ webContext = <<>>)
    /\ routerPc' = "done"
    /\ UNCHANGED <<router, routerQuery, urls, intent, resultsData, webContext>>
    /\ UNCHANGED <<streamVars, extractVars, fetchVars, searchVars, newsVars, uiVars,
                   storeVars>>

NextRouter == DetectIntent \/ HandleIntent \/ WebSearch

SpecRouter == InitRouter /\ [][NextRouter]_vars

---------------------------------------------------------------------------
(* Claims about the intent classifier and the routing *)

\* the pattern groups in the priority order of the claim
IntentOrder == <<"time", "weather", "currency", "news">>

\* the group of patterns of an intent
PatternsOf(name) ==
    CASE name = "time" -> timePatterns
      [] name = "weather" -> weatherPatterns
      [] name = "currency" -> currencyPatterns
      [] name = "news" -> newsPatterns

\* the groups that have a pattern matching the lower-cased query
MatchingGroups(q) ==
    {k \in 1..Len(IntentOrder) : SomePattern(PatternsOf(IntentOrder[k]), ToLowerCase(q))}

\* C21: every query yields exactly one of the five intents: the first of
\* time, weather, currency, news whose group has a matching pattern, and
\* search when no group matches, as for the empty string
C21_FirstMatchingIntent ==
    routerPc # "start" =>
        /\ intent \in {"time", "weather", "currency", "news", "search"}
        /\ IF MatchingGroups(routerQuery) = {}
           THEN intent = "search"
           ELSE \E k \in MatchingGroups(routerQuery) :
                    /\ intent = IntentOrder[k]
                    /\ \A j \in MatchingGroups(routerQuery) : k <= j
        /\ routerQuery = <<>> => intent = "search"

\* a query matching the weather group and the news group was classified
C21_Witness ==
    /\ routerPc # "start"
    /\ {2, 4} \subseteq MatchingGroups(routerQuery)
    /\ intent = "weather"

\* the direct-answer provider of the intent ran and got its answer
DirectSucceeded ==
    /\ resultsData.provider \in {"time", "weather", "currency", "news"}
    /\ (resultsData.hasSuccess => resultsData.success)

\* C22: for a query classified time, weather, currency or news, when the
\* direct-answer provider succeeds performWebSearch is not invoked; it is
\* invoked only when the intent is search or the provider did not succeed
C22_IntentRouting ==
    routerPc = "done" =>
        /\ (intent # "search" /\ DirectSucceeded) => ~searched
        /\ searched => (intent = "search" \/ ~DirectSucceeded)

---------------------------------------------------------------------------
(* NewsProvider: getNewsHeadlines and the MCP tool get_news.  The topic
   argument selects the Hacker News endpoint and the wording of the answer
   and has no part in what is collected, so it is left out. *)

\* the caller's maxResults: getNewsHeadlines is called with 5 by both
\* routers and takes any number; the schema of get_news admits 1 to 20
InitNews ==
    /\ newsFn \in {"getNewsHeadlines", "get_news"}
    /\ newsMax \in {[given |-> FALSE, value |-> 0]}
                      \cup {[given |-> TRUE, value |-> n] :
                              n \in IF newsFn = "get_news" THEN {1, 2, 20} ELSE {2, 3, 5}}
    /\ newsPc = "hackerNews"
    /\ headlines = <<>>
    /\ newsReturn = [state |-> "pending"]
    /\ StreamIdle /\ ExtractIdle /\ FetchIdle /\ SearchIdle
    /\ RouterIdle /\ UiIdle /\ StoreIdle

\* the Hacker News block: the request asks for hitsPerPage = maxResults and
\* fails, or is answered with no hit, one hit, or a full page of hits; every
\* hit is pushed as a headline (here: its source and its place in the answer)
FetchHackerNews ==
    /\ newsPc = "hackerNews"
    /\ \E answer \in {"error", "status", "malformed", "ok"} :
       \E hits \in {0, 1, EffectiveMax(newsMax)} :
          /\ answer # "ok" => hits = 0
          /\ headlines' = headlines \o [i \in 1..hits |-> [source |-> "Hacker News", n |-> i]]
    /\ newsPc' = "wikipedia"
    /\ UNCHANGED <<newsFn, newsMax, newsReturn>>
    /\ UNCHANGED <<streamVars, extractVars, fetchVars, searchVars, routerVars, uiVars,
                   storeVars>>

\* the Wikipedia block, entered if (results.length < maxResults): the feed
\* request fails, or has no news field, or lists news items, some without a
\* story; the first five items are read and those with a story are pushed
FetchWikipedia ==
    /\ newsPc = "wikipedia"
    /\ \E news \in {<<>>, <<TRUE, FALSE, TRUE>>, [i \in 1..7 |-> TRUE]} :
          LET read == Take(news, 5)
              stories == SelectSeq([i \in 1..Len(read) |->
                                       IF read[i] THEN i ELSE 0], LAMBDA i : i > 0)
          IN /\ Len(headlines) >= EffectiveMax(newsMax) => news = <<>>
             /\ headlines' =
                    headlines \o [k \in 1..Len(stories) |->
                                     [source |-> "Wikipedia", n |-> stories[k]]]
    /\ newsPc' = "return"
    /\ UNCHANGED <<newsFn, newsMax, newsReturn>>
    /\ UNCHANGED <<streamVars, extractVars, fetchVars, searchVars, routerVars, uiVars,
                   storeVars>>

\* getNewsHeadlines returns { success, results, topic }; get_news returns
\* the text of no news, or the text of results.slice(0, max_results)
ReturnNews ==
    /\ newsPc = "return"
    /\ newsReturn' =
          [state |-> "returned", success |-> headlines # <<>>,
           results |-> IF newsFn = "getNewsHeadlines" THEN headlines
                       ELSE Take(headlines, EffectiveMax(newsMax))]
    /\ newsPc' = "done"
    /\ UNCHANGED <<newsFn, newsMax, headlines>>
    /\ UNCHANGED <<streamVars, extractVars, fetchVars, searchVars, routerVars, uiVars,
                   storeVars>>

NextNews == FetchHackerNews \/ FetchWikipedia \/ ReturnNews

SpecNews == InitNews /\ [][NextNews]_vars

---------------------------------------------------------------------------
(* Claims about the news provider *)

\* C23: the headline provider returns at most max_results headlines
\* (default 10), also when Hacker News and the Wikipedia current events both
\* contribute
C23_NewsCap ==
    newsReturn.state = "returned" =>
        Len(newsReturn.results) <= EffectiveMax(newsMax)

---------------------------------------------------------------------------
(* Claims on the decoder: consumption while the stream is open *)

\* the newline-terminated lines the buffer holds
RetainedLines == SubSeq(Split(buffer), 1, Len(Split(buffer)) - 1)

\* C24: while the stream is open, every newline-terminated line that is a
\* complete protocol frame is consumed, and its content yielded, during the
\* processing of the chunk that delivers its newline, so none is left in the
\* buffer after a chunk, even when an earlier line that failed to parse is
\* retained
C24_PromptConsumption ==
    pc = "read" => \A i \in 1..Len(RetainedLines) : ~FrameLine(RetainedLines[i])

\* the newline-terminated lines delivered so far
DeliveredLines == SubSeq(Split(Delivered), 1, Len(Split(Delivered)) - 1)

\* C25: processLine marks a data line as incomplete only when its payload is
\* not syntactically valid JSON; a line whose payload is valid JSON of any
\* type, null included, is classified complete
C25_FrameClassification ==
    pc = "read" =>
        \A i \in 1..Len(DeliveredLines) :
            processLine(DeliveredLines[i]).incomplete => FailedLine(DeliveredLines[i])

---------------------------------------------------------------------------
(* ChatStore: the chat actions of useChatStore (src/src/store.js).  An id is
   a positive number, the n-th value generateId produced; null is 0.  The
   timestamps createdAt and updatedAt are left out. *)

\* ids generateId produces in a run
MaxIds == 6

NewChatTitle == <<"New Chat">>

\* state.chats.find(c => c.id === chatId), as the list of the chat found
FindChat(chs, chatId) == Take(SelectSeq(chs, LAMBDA c : c.id = chatId), 1)

\* state.chats.map(chat => chat.id === chatId ? change(chat) : chat), with
\* changed[i] the value of change(chs[i])
MapChat(chs, chatId, changed) ==
    [i \in 1..Len(chs) |-> IF chs[i].id = chatId THEN changed[i] ELSE chs[i]]

\* createChat with id the value generateId would produce: the store after
\* it, the id it returns, and whether it made a chat
createChat(chs, cur, id) ==
    LET currentChat == FindChat(chs, cur)
        newChat == [id |-> id, title |-> NewChatTitle, messages |-> <<>>,
                    pinned |-> FALSE, files |-> <<>>]
    IN IF /\ currentChat # <<>>
          /\ currentChat[1].messages = <<>>
          /\ currentChat[1].title = NewChatTitle
       THEN [chats |-> chs, currentChatId |-> cur, id |-> cur, made |-> FALSE]
       ELSE [chats |-> <<newChat>> \o chs, currentChatId |-> id, id |-> id,
             made |-> TRUE]

\* addMessage(chatId, message) with id the value generateId produces
addMessage(chs, chatId, message, id) ==
    LET add(chat) ==
            [chat EXCEPT
                !.messages = Append(@, [id |-> id, role |-> message.role,
                                        content |-> message.content]),
                !.title = IF @ = NewChatTitle /\ message.role = "user"
                          THEN Take(message.content, 50)
                                   \o (IF Len(message.content) > 50
                                       THEN <<"...">> ELSE <<>>)
                          ELSE @]
    IN MapChat(chs, chatId, [i \in 1..Len(chs) |-> add(chs[i])])

\* updateMessage(chatId, messageId, content)
updateMessage(chs, chatId, messageId, content) ==
    LET update(chat) ==
            [chat EXCEPT !.messages =
                [k \in 1..Len(@) |->
                    IF @[k].id = messageId THEN [@[k] EXCEPT !.content = content]
                    ELSE @[k]]]
    IN MapChat(chs, chatId, [i \in 1..Len(chs) |-> update(chs[i])])

\* deleteMessage(chatId, messageId)
deleteMessage(chs, chatId, messageId) ==
    LET delete(chat) ==
            [chat EXCEPT !.messages = SelectSeq(@, LAMBDA msg : msg.id # messageId)]
    IN MapChat(chs, chatId, [i \in 1..Len(chs) |-> delete(chs[i])])

\* addFiles(chatId, files)
addFiles(chs, chatId, files) ==
    LET add(chat) ==
            LET existingFilenames == {chat.files[k].filename : k \in 1..Len(chat.files)}
                newFiles == SelectSeq(files, LAMBDA f : f.filename \notin existingFilenames)
                updatedFiles ==
                    [k \in 1..Len(chat.files) |->
                        LET updated ==
                                SelectSeq(files,
                                          LAMBDA f : f.filename = chat.files[k].filename)
                        IN IF updated # <<>>
                           THEN [chat.files[k] EXCEPT !.code = updated[1].code]
                           ELSE chat.files[k]]
            IN [chat EXCEPT !.files = updatedFiles \o newFiles]
    IN MapChat(chs, chatId, [i \in 1..Len(chs) |-> add(chs[i])])

\* the chatId a caller passes: the id of a chat, or an id no chat has
ChatIdArguments == {chats[i].id : i \in 1..Len(chats)} \cup {MaxIds + 1}

\* the store after construction: chats: [], currentChatId: null
InitStore ==
    /\ chats = <<>>
    /\ currentChatId = 0
    /\ nextId = 0
    /\ StreamIdle /\ ExtractIdle /\ FetchIdle /\ SearchIdle
    /\ RouterIdle /\ NewsIdle /\ UiIdle

CreateChat ==
    /\ nextId < MaxIds
    /\ LET made == createChat(chats, currentChatId, nextId + 1)
       IN /\ chats' = made.chats
          /\ currentChatId' = made.currentChatId
          /\ nextId' = IF made.made THEN nextId + 1 ELSE nextId
    /\ UNCHANGED <<streamVars, extractVars, fetchVars, searchVars, routerVars, newsVars,
                   uiVars>>

DeleteChat ==
    /\ \E chatId \in ChatIdArguments :
          LET newChats == SelectSeq(chats, LAMBDA c : c.id # chatId)
          IN /\ chats' = newChats
             /\ currentChatId' =
                    IF currentChatId = chatId
                    THEN (IF newChats # <<>> THEN newChats[1].id ELSE 0)
                    ELSE currentChatId
    /\ UNCHANGED nextId
    /\ UNCHANGED <<streamVars, extractVars, fetchVars, searchVars, routerVars, newsVars,
                   uiVars>>

\* selectChat(chatId), called by the sidebar with the id of a listed chat
SelectChat ==
    /\ \E i \in 1..Len(chats) : currentChatId' = chats[i].id
    /\ UNCHANGED <<chats, nextId>>
    /\ UNCHANGED <<streamVars, extractVars, fetchVars, searchVars, routerVars, newsVars,
                   uiVars>>

PinChat ==
    /\ \E chatId \in ChatIdArguments :
          LET pin(chat) == [chat EXCEPT !.pinned = ~@]
          IN chats' = MapChat(chats, chatId, [i \in 1..Len(chats) |-> pin(chats[i])])
    /\ UNCHANGED <<currentChatId, nextId>>
    /\ UNCHANGED <<streamVars, extractVars, fetchVars, searchVars, routerVars, newsVars,
                   uiVars>>

DeleteAllChats ==
    /\ LET pinnedChats == SelectSeq(chats, LAMBDA c : c.pinned)
       IN /\ chats' = pinnedChats
          /\ currentChatId' = IF pinnedChats # <<>> THEN pinnedChats[1].id ELSE 0
    /\ UNCHANGED nextId
    /\ UNCHANGED <<streamVars, extractVars, fetchVars, searchVars, routerVars, newsVars,
                   uiVars>>

AddMessage ==
    /\ nextId < MaxIds
    /\ \E chatId \in ChatIdArguments, role \in {"user", "assistant"} :
          chats' = addMessage(chats, chatId, [role |-> role, content |-> <<"h", "i">>],
                              nextId + 1)
    /\ nextId' = nextId + 1
    /\ UNCHANGED currentChatId
    /\ UNCHANGED <<streamVars, extractVars, fetchVars, searchVars, routerVars, newsVars,
                   uiVars>>

NextStore ==
    \/ CreateChat
    \/ DeleteChat
    \/ SelectChat
    \/ PinChat
    \/ DeleteAllChats
    \/ AddMessage

SpecStore == InitStore /\ [][NextStore]_vars

\* the batches a caller passes: one or two files, the same name twice too
FileBatches ==
    LET file == [filename : {"a.js", "b.js", "c.js"}, code : {"1", "2"}]
    IN UNION {[1..n -> file] : n \in 1..2}

\* a store with one chat, made by createChat
InitFiles ==
    /\ chats = createChat(<<>>, 0, 1).chats
    /\ currentChatId = 1
    /\ nextId = 1
    /\ StreamIdle /\ ExtractIdle /\ FetchIdle /\ SearchIdle
    /\ RouterIdle /\ NewsIdle /\ UiIdle

AddFiles ==
    /\ \E chatId \in ChatIdArguments, files \in FileBatches :
          chats' = addFiles(chats, chatId, files)
    /\ UNCHANGED <<currentChatId, nextId>>
    /\ UNCHANGED <<streamVars, extractVars, fetchVars, searchVars, routerVars, newsVars,
                   uiVars>>

ClearFiles ==
    /\ \E chatId \in ChatIdArguments :
          LET clear(chat) == [chat EXCEPT !.files = <<>>]
          IN chats' = MapChat(chats, chatId, [i \in 1..Len(chats) |-> clear(chats[i])])
    /\ UNCHANGED <<currentChatId, nextId>>
    /\ UNCHANGED <<streamVars, extractVars, fetchVars, searchVars, routerVars, newsVars,
                   uiVars>>

NextFiles == AddFiles \/ ClearFiles

SpecFiles == InitFiles /\ [][NextFiles]_vars

---------------------------------------------------------------------------
(* Claims about the store *)

\* the chat that is current, as a list
CurrentChat == FindChat(chats, currentChatId)

\* C28: after any sequence of store actions currentChatId is null or the id
\* of a chat in chats; deleteChat of a chat other than the current one, and
\* deleteAllChats while the current chat is pinned, leave currentChatId
\* unchanged
C28_CurrentChatInvariant ==
    [][/\ (currentChatId' = 0 \/ \E i \in 1..Len(chats') : chats'[i].id = currentChatId')
       /\ (\E chatId \in ChatIdArguments \ {currentChatId} :
              chats' = SelectSeq(chats, LAMBDA c : c.id # chatId) /\ DeleteChat)
             => currentChatId' = currentChatId
       /\ (DeleteAllChats /\ CurrentChat # <<>> /\ CurrentChat[1].pinned)
             => currentChatId' = currentChatId]_vars

\* the chats that have no message and the title 'New Chat'
EmptyChats ==
    {i \in 1..Len(chats) : chats[i].messages = <<>> /\ chats[i].title = NewChatTitle}

\* C29: after any sequence of store actions the store holds at most one chat
\* with no messages and the title 'New Chat'
C29_NoDuplicateEmptyChats == Cardinality(EmptyChats) <= 1

\* C30: after any sequence of addFiles and clearFiles no two entries of a
\* chat's files share a filename, also when a batch names a file twice
C30_FilenameUniqueness ==
    \A c \in 1..Len(chats) :
        \A i, j \in 1..Len(chats[c].files) :
            i # j => chats[c].files[i].filename # chats[c].files[j].filename

---------------------------------------------------------------------------
(* Chat view: handleSubmit and handleRemake.  A handler runs to its first
   await in one step; one handler runs at a time.  closure holds the state
   values the handler captured when the component rendered (it reads
   streamingMessageId from there, not from the store of useState) and the
   handler's locals. *)

\* chunks a completion stream yields
MaxChunks == 2

\* the handler has returned: pc = idle and handler names the one that ran
InitUi ==
    /\ chats = <<>> /\ currentChatId = 0 /\ nextId = 0
    /\ UiIdle
    /\ StreamIdle /\ ExtractIdle /\ FetchIdle /\ SearchIdle
    /\ RouterIdle /\ NewsIdle

\* catch (error) { if (streamingMessageId) { deleteMessage(chatId,
\* streamingMessageId); setStreamingMessageId(null); } }: the chats and the
\* state value after it
Catch(chs, current, cl) ==
    IF cl.streamingMessageId # 0
    THEN [chats |-> deleteMessage(chs, cl.chatId, cl.streamingMessageId),
          streamingMessageId |-> 0]
    ELSE [chats |-> chs, streamingMessageId |-> current]

\* handleSubmit up to its first await, with some input typed and the
\* generation mode of the settings
Submit ==
    /\ uiPc = "idle" /\ ~isLoading
    /\ nextId + 3 <= MaxIds
    /\ \E mode \in {"text", "image"} :
          LET made == IF currentChatId # 0
                      THEN [chats |-> chats, currentChatId |-> currentChatId,
                            id |-> currentChatId, made |-> FALSE]
                      ELSE createChat(chats, currentChatId, nextId + 1)
              used == IF made.made THEN nextId + 1 ELSE nextId
              withUser == addMessage(made.chats, made.id,
                                     [role |-> "user", content |-> <<"h", "i">>],
                                     used + 1)
              assistantMsgId == used + 2
          IN /\ currentChatId' = made.currentChatId
             /\ IF mode = "image"
                THEN /\ chats' = withUser
                     /\ nextId' = used + 1
                     /\ streamingMessageId' = streamingMessageId
                     /\ uiPc' = "image"
                     /\ closure' = [NoClosure EXCEPT
                                       !.streamingMessageId = streamingMessageId,
                                       !.chatId = made.id]
                ELSE /\ chats' = addMessage(withUser, made.id,
                                            [role |-> "assistant", content |-> <<>>],
                                            assistantMsgId)
                     /\ nextId' = used + 2
                     /\ streamingMessageId' = assistantMsgId
                     /\ uiPc' = "stream"
                     /\ closure' = [NoClosure EXCEPT
                                       !.streamingMessageId = streamingMessageId,
                                       !.chatId = made.id,
                                       !.assistantMsgId = assistantMsgId]
    /\ handler' = "handleSubmit"
    /\ isLoading' = TRUE
    /\ isWaitingForResponse' = TRUE
    /\ UNCHANGED remakingMessageId
    /\ UNCHANGED <<streamVars, extractVars, fetchVars, searchVars, routerVars, newsVars>>

\* await generateImage(...) settles: an image, a text, or an exception;
\* then the catch and the finally block
ImageResult ==
    /\ handler = "handleSubmit" /\ uiPc = "image"
    /\ \E outcome \in {"image", "text", "throw"} :
          LET caught == Catch(chats, streamingMessageId, closure)
          IN IF outcome = "throw"
             THEN /\ chats' = caught.chats
                  /\ streamingMessageId' = caught.streamingMessageId
                  /\ nextId' = nextId
                  /\ closure' = [closure EXCEPT !.threw = TRUE]
             ELSE /\ chats' = addMessage(chats, closure.chatId,
                                         [role |-> "assistant",
                                          content |-> IF outcome = "image" THEN <<>>
                                                      ELSE <<"t">>],
                                         nextId + 1)
                  /\ nextId' = nextId + 1
                  /\ UNCHANGED <<streamingMessageId, closure>>
    /\ isLoading' = FALSE
    /\ isWaitingForResponse' = FALSE
    /\ uiPc' = "idle"
    /\ UNCHANGED <<handler, remakingMessageId, currentChatId>>
    /\ UNCHANGED <<streamVars, extractVars, fetchVars, searchVars, routerVars, newsVars>>

\* the body of for await (const chunk of ...) of handleSubmit
StreamChunk ==
    /\ handler = "handleSubmit" /\ uiPc = "stream"
    /\ Len(closure.fullContent) < MaxChunks
    /\ closure' = [closure EXCEPT !.fullContent = Append(@, "x")]
    /\ chats' = updateMessage(chats, closure.chatId, closure.assistantMsgId,
                              closure'.fullContent)
    /\ isWaitingForResponse' = FALSE
    /\ UNCHANGED <<handler, uiPc, isLoading, streamingMessageId, remakingMessageId,
                   currentChatId, nextId>>
    /\ UNCHANGED <<streamVars, extractVars, fetchVars, searchVars, routerVars, newsVars>>

\* the stream of handleSubmit ends, or throws: setStreamingMessageId(null)
\* and the files of agent mode, or the catch; then the finally block
StreamEnds ==
    /\ handler = "handleSubmit" /\ uiPc = "stream"
    /\ \E threw \in BOOLEAN :
       \E parsedFiles \in {<<>>, <<[filename |-> "a.js", code |-> "1"]>>} :
          LET caught == Catch(chats, streamingMessageId, closure)
          IN /\ threw => parsedFiles = <<>>
             /\ chats' = IF threw THEN caught.chats
                         ELSE IF parsedFiles # <<>>
                         THEN addFiles(chats, closure.chatId, parsedFiles)
                         ELSE chats
             /\ streamingMessageId' = IF threw THEN caught.streamingMessageId ELSE 0
             /\ closure' = [closure EXCEPT !.threw = threw]
    /\ isLoading' = FALSE
    /\ isWaitingForResponse' = FALSE
    /\ uiPc' = "idle"
    /\ UNCHANGED <<handler, remakingMessageId, currentChatId, nextId>>
    /\ UNCHANGED <<streamVars, extractVars, fetchVars, searchVars, routerVars, newsVars>>

\* neither if (msgIndex < 1) return nor if (userMessage.role !== 'user')
\* return is taken; found.messages[found.msgIndex] is the message before
RemakeProceeds(found) ==
    /\ found.msgIndex >= 1
    /\ found.messages[found.msgIndex].role = "user"

\* handleRemake(messageId, newModel) up to its first await, with a current
\* chat; messageId is the id of one of its messages or of none
Remake ==
    /\ uiPc = "idle"
    /\ FindChat(chats, currentChatId) # <<>>
    /\ LET messages == FindChat(chats, currentChatId)[1].messages
       IN \E messageId \in {messages[k].id : k \in 1..Len(messages)} \cup {MaxIds + 1} :
             LET \* findIndex, 0-based, -1 when no message has the id; the
                 \* message before it is messages[msgIndex] here
                 msgIndex ==
                     IF \E k \in 1..Len(messages) : messages[k].id = messageId
                     THEN (CHOOSE k \in 1..Len(messages) : messages[k].id = messageId) - 1
                     ELSE -1
             IN /\ remakingMessageId' = messageId
                /\ uiPc' = IF RemakeProceeds([msgIndex |-> msgIndex,
                                              messages |-> messages])
                           THEN "remake" ELSE "idle"
                /\ closure' = [NoClosure EXCEPT !.messageId = messageId,
                                                !.chatId = currentChatId]
    /\ handler' = "handleRemake"
    /\ UNCHANGED <<isLoading, isWaitingForResponse, streamingMessageId, storeVars>>
    /\ UNCHANGED <<streamVars, extractVars, fetchVars, searchVars, routerVars, newsVars>>

\* the body of for await (const chunk of ...) of handleRemake
RemakeChunk ==
    /\ handler = "handleRemake" /\ uiPc = "remake"
    /\ Len(closure.fullContent) < MaxChunks
    /\ closure' = [closure EXCEPT !.fullContent = Append(@, "y")]
    /\ chats' = updateMessage(chats, closure.chatId, closure.messageId,
                              closure'.fullContent)
    /\ UNCHANGED <<handler, uiPc, isLoading, isWaitingForResponse, streamingMessageId,
                   remakingMessageId, currentChatId, nextId>>
    /\ UNCHANGED <<streamVars, extractVars, fetchVars, searchVars, routerVars, newsVars>>

\* the stream of handleRemake ends or throws: the catch logs, the finally
\* block calls setRemakingMessageId(null)
RemakeEnds ==
    /\ handler = "handleRemake" /\ uiPc = "remake"
    /\ \E threw \in BOOLEAN : closure' = [closure EXCEPT !.threw = threw]
    /\ remakingMessageId' = 0
    /\ uiPc' = "idle"
    /\ UNCHANGED <<handler, isLoading, isWaitingForResponse, streamingMessageId, storeVars>>
    /\ UNCHANGED <<streamVars, extractVars, fetchVars, searchVars, routerVars, newsVars>>

NextUi ==
    \/ Submit
    \/ ImageResult
    \/ StreamChunk
    \/ StreamEnds
    \/ Remake
    \/ RemakeChunk
    \/ RemakeEnds

SpecUi == InitUi /\ [][NextUi]_vars

---------------------------------------------------------------------------
(* Claims about the chat view *)

\* the handler has returned
Finished(name) == handler = name /\ uiPc = "idle"

\* the ids of the messages of all chats
MessageIds ==
    UNION {{chats[i].messages[k].id : k \in 1..Len(chats[i].messages)} :
              i \in 1..Len(chats)}

\* C26: when the completion stream throws during handleSubmit after the
\* empty assistant placeholder was added, the placeholder is deleted and
\* streamingMessageId is null when handleSubmit finishes; isLoading and
\* isWaitingForResponse are false after handleSubmit finishes on every path
C26_SubmissionErrorCleanup ==
    Finished("handleSubmit") =>
        /\ (closure.threw /\ closure.assistantMsgId # 0) =>
              /\ closure.assistantMsgId \notin MessageIds
              /\ streamingMessageId = 0
        /\ ~isLoading /\ ~isWaitingForResponse

\* C27: every invocation of handleRemake that sets remakingMessageId has
\* reset it to null when the handler has returned, on every path
C27_RemakeStateReset == Finished("handleRemake") => remakingMessageId = 0

===========================================================================
